---- MODULE Spec2Model ----
(***************************************************************************)
(* The boolean category-expression parser of opus-mcp                      *)
(* (internal/parser/parser.go): lex, the recursive-descent                 *)
(* parseExpression and ParseReconstructCategoryExpression.                 *)
(*                                                                         *)
(* A Go string is modelled as a sequence of one-character strings, so      *)
(* that ReplaceAll, Fields, ToUpper, HasPrefix, HasSuffix and Join are     *)
(* computed on characters as the Go library computes them.                 *)
(***************************************************************************)
EXTENDS Integers, Sequences, FiniteSets, TLC

(***************************************************************************)
(* Bounds of the model.                                                    *)
(***************************************************************************)
\* An input is the concatenation of at most MaxPieces pieces of Pieces.
MaxPieces == 4

\* The input of a concurrent caller has at most MaxCallerPieces pieces.
MaxCallerPieces == 2

\* An input of the lexer has at most MaxLexPieces pieces.
MaxLexPieces == 3

(***************************************************************************)
(* Strings.                                                                *)
(***************************************************************************)
Last(s) == s[Len(s)]

\* A mutant of IsSpace: the blank is the only whitespace.
IsSpaceBlankOnly(c) == c = " "

\* unicode.IsSpace, on the characters of the model.
IsSpace(c) == c \in {" ", "\t", "\n", "\r"}

LowerLetters == <<"a","b","c","d","e","f","g","h","i","j","k","l","m",
                  "n","o","p","q","r","s","t","u","v","w","x","y","z">>
UpperLetters == <<"A","B","C","D","E","F","G","H","I","J","K","L","M",
                  "N","O","P","Q","R","S","T","U","V","W","X","Y","Z">>

\* The upper-case letter of every lower-case letter.
UpperOf ==
    [c \in {LowerLetters[i] : i \in 1..26} |->
        UpperLetters[CHOOSE i \in 1..26 : LowerLetters[i] = c]]

\* unicode.ToUpper of one character.
ToUpperChar(c) == IF c \in DOMAIN UpperOf THEN UpperOf[c] ELSE c

\* strings.ToUpper
ToUpper(s) == [i \in 1..Len(s) |-> ToUpperChar(s[i])]

\* strings.HasPrefix
HasPrefix(s, prefix) ==
    /\ Len(s) >= Len(prefix)
    /\ SubSeq(s, 1, Len(prefix)) = prefix

\* strings.HasSuffix
HasSuffix(s, suffix) ==
    /\ Len(s) >= Len(suffix)
    /\ SubSeq(s, Len(s) - Len(suffix) + 1, Len(s)) = suffix

RECURSIVE ReplaceAll(_, _, _)
\* strings.ReplaceAll(s, old, new) for a one-character old.
ReplaceAll(s, old, new) ==
    IF s = <<>> THEN <<>>
    ELSE (IF Head(s) = old THEN new ELSE <<Head(s)>>)
             \o ReplaceAll(Tail(s), old, new)

RECURSIVE FieldsFrom(_, _, _)
\* The fields of s[i..], cur being the field that is being read.
FieldsFrom(s, i, cur) ==
    IF i > Len(s) THEN (IF cur = <<>> THEN <<>> ELSE <<cur>>)
    ELSE IF IsSpace(s[i])
         THEN (IF cur = <<>> THEN <<>> ELSE <<cur>>) \o FieldsFrom(s, i + 1, <<>>)
         ELSE FieldsFrom(s, i + 1, Append(cur, s[i]))

\* strings.Fields: the maximal runs of non-space characters of s.
Fields(s) == FieldsFrom(s, 1, <<>>)

RECURSIVE Join(_, _)
\* strings.Join
Join(elems, sep) ==
    IF elems = <<>> THEN <<>>
    ELSE IF Len(elems) = 1 THEN elems[1]
    ELSE elems[1] \o sep \o Join(Tail(elems), sep)

(***************************************************************************)
(* Tokens and the lexer.                                                   *)
(***************************************************************************)
tokenIdent  == 0
tokenAnd    == 1
tokenOr     == 2
tokenNot    == 3
tokenLParen == 4
tokenRParen == 5
tokenEOF    == 6

token(type, value) == [Type |-> type, Value |-> value]

KwAND == <<"A", "N", "D">>
KwOR  == <<"O", "R">>
KwNOT == <<"N", "O", "T">>

\* A mutant of Classify: the keywords are matched in upper case only.
ClassifyCaseSensitive(f) ==
    CASE f = KwAND \/ f = <<"+">> -> token(tokenAnd, KwAND)
      [] f = KwOR  \/ f = <<"|">> -> token(tokenOr, KwOR)
      [] f = KwNOT \/ f = <<"-">> -> token(tokenNot, KwNOT)
      [] f = <<"(">>              -> token(tokenLParen, <<"(">>)
      [] f = <<")">>              -> token(tokenRParen, <<")">>)
      [] OTHER                    -> token(tokenIdent, f)

\* A mutant of Classify: an identifier is stored in upper case.
ClassifyUpperValue(f) ==
    LET u == ToUpper(f) IN
    CASE u = KwAND \/ u = <<"+">> -> token(tokenAnd, KwAND)
      [] u = KwOR  \/ u = <<"|">> -> token(tokenOr, KwOR)
      [] u = KwNOT \/ u = <<"-">> -> token(tokenNot, KwNOT)
      [] u = <<"(">>              -> token(tokenLParen, <<"(">>)
      [] u = <<")">>              -> token(tokenRParen, <<")">>)
      [] OTHER                    -> token(tokenIdent, u)

\* A mutant of Classify: the case of "-" is missing.
ClassifyNoMinus(f) ==
    LET u == ToUpper(f) IN
    CASE u = KwAND \/ u = <<"+">> -> token(tokenAnd, KwAND)
      [] u = KwOR  \/ u = <<"|">> -> token(tokenOr, KwOR)
      [] u = KwNOT                -> token(tokenNot, KwNOT)
      [] u = <<"(">>              -> token(tokenLParen, <<"(">>)
      [] u = <<")">>              -> token(tokenRParen, <<")">>)
      [] OTHER                    -> token(tokenIdent, f)

\* The token of one field: the switch on strings.ToUpper(f).
Classify(f) ==
    LET u == ToUpper(f) IN
    CASE u = KwAND \/ u = <<"+">> -> token(tokenAnd, KwAND)
      [] u = KwOR  \/ u = <<"|">> -> token(tokenOr, KwOR)
      [] u = KwNOT \/ u = <<"-">> -> token(tokenNot, KwNOT)
      [] u = <<"(">>              -> token(tokenLParen, <<"(">>)
      [] u = <<")">>              -> token(tokenRParen, <<")">>)
      [] OTHER                    -> token(tokenIdent, f)

\* A mutant of Padded: ")" is not padded.
PaddedNoRParen(input) ==
    LET s1 == ReplaceAll(input, "(", <<" ", "(", " ">>)
        s3 == ReplaceAll(s1, "+", <<" ", "+", " ">>)
        s4 == ReplaceAll(s3, "-", <<" ", "-", " ">>)
    IN  ReplaceAll(s4, "|", <<" ", "|", " ">>)

\* A mutant of Padded: "+" is not padded.
PaddedNoPlus(input) ==
    LET s1 == ReplaceAll(input, "(", <<" ", "(", " ">>)
        s2 == ReplaceAll(s1, ")", <<" ", ")", " ">>)
        s4 == ReplaceAll(s2, "-", <<" ", "-", " ">>)
    IN  ReplaceAll(s4, "|", <<" ", "|", " ">>)

\* A mutant of Padded: the shorthand operators are not padded.
PaddedNoShorthand(input) ==
    LET s1 == ReplaceAll(input, "(", <<" ", "(", " ">>)
    IN  ReplaceAll(s1, ")", <<" ", ")", " ">>)

\* The string that lex splits: the five meta-characters padded with spaces.
Padded(input) ==
    LET s1 == ReplaceAll(input, "(", <<" ", "(", " ">>)
        s2 == ReplaceAll(s1, ")", <<" ", ")", " ">>)
        s3 == ReplaceAll(s2, "+", <<" ", "+", " ">>)
        s4 == ReplaceAll(s3, "-", <<" ", "-", " ">>)
    IN  ReplaceAll(s4, "|", <<" ", "|", " ">>)

lex(input) ==
    LET fields == Fields(Padded(input))
    IN  [i \in 1..Len(fields) |-> Classify(fields[i])]
            \o <<token(tokenEOF, <<>>)>>

(***************************************************************************)
(* The parser.  One invocation of ParseReconstructCategoryExpression is a  *)
(* record st: the parser struct (tokens, pos), the call stack of           *)
(* parseExpression (one frame per active call, holding its local parts),   *)
(* the values handed back by the call that has just returned (ret), the    *)
(* result of the invocation (out) and the position in the code (pc).       *)
(***************************************************************************)
Nil == "nil"
ErrEmptyExpression == "empty expression"

CatPrefix == <<"c", "a", "t", ":">>

Frame(parts) == [parts |-> parts]

Cur(st) == st.tokens[st.pos + 1]

Top(st) == st.stack[Len(st.stack)]

\* The stack with the parts of its top frame replaced.
SetTopParts(stack, parts) ==
    [stack EXCEPT ![Len(stack)] = Frame(parts)]

Pop(stack) == SubSeq(stack, 1, Len(stack) - 1)

\* A mutant of isLastTerm: a group is not taken for a term.
isLastTermIdentOnly(last) == HasPrefix(last, CatPrefix)

\* strings.HasPrefix(last, "cat:") || strings.HasSuffix(last, ")")
isLastTerm(last) == HasPrefix(last, CatPrefix) \/ HasSuffix(last, <<")">>)

\* A mutant of isCurrTerm: an identifier is not taken for a term.
isCurrTermParenOnly(tok) == tok.Type = tokenLParen

\* tok.Type == tokenIdent || tok.Type == tokenLParen
isCurrTerm(tok) == tok.Type = tokenIdent \/ tok.Type = tokenLParen

\* The implicit AND logic: parts, with "AND" appended when the last part
\* and the current token are both terms.
ImplicitAnd(parts, tok) ==
    IF /\ Len(parts) > 0
       /\ isLastTerm(Last(parts))
       /\ isCurrTerm(tok)
    THEN Append(parts, KwAND)
    ELSE parts

\* The loop of parseExpression goes on: there is a token and it is neither
\* ")" nor EOF.
InLoop(st) ==
    /\ st.pos < Len(st.tokens)
    /\ Cur(st).Type # tokenRParen
    /\ Cur(st).Type # tokenEOF

\* ParseReconstructCategoryExpression up to its call of parseExpression.
Enter(input) ==
    [tokens |-> lex(input),
     pos    |-> 0,
     stack  |-> <<Frame(<<>>)>>,
     ret    |-> [expr |-> <<>>, err |-> Nil],
     out    |-> [str |-> <<>>, err |-> Nil],
     pc     |-> "loop"]

\* One iteration of the loop on "(": the recursive call.
StepLParen(st) ==
    [st EXCEPT !.pos = st.pos + 1,
               !.stack = Append(SetTopParts(st.stack,
                                    ImplicitAnd(Top(st).parts, Cur(st))),
                                Frame(<<>>))]

\* A mutant of StepIdent: no implicit AND in front of an identifier.
StepIdentNoAnd(st) ==
    [st EXCEPT !.pos = st.pos + 1,
               !.stack = SetTopParts(st.stack,
                             Append(Top(st).parts,
                                    CatPrefix \o Cur(st).Value))]

\* One iteration of the loop on an identifier.
StepIdent(st) ==
    [st EXCEPT !.pos = st.pos + 1,
               !.stack = SetTopParts(st.stack,
                             Append(ImplicitAnd(Top(st).parts, Cur(st)),
                                    CatPrefix \o Cur(st).Value))]

\* One iteration of the loop on AND, OR or NOT.
StepOperator(st) ==
    [st EXCEPT !.pos = st.pos + 1,
               !.stack = SetTopParts(st.stack,
                             Append(ImplicitAnd(Top(st).parts, Cur(st)),
                                    Cur(st).Value))]

\* A mutant of Joined: the empty result is handed back without an error.
JoinedLenient(result) == [expr |-> result, err |-> Nil]

\* What parseExpression hands back for the joined parts.
Joined(result) ==
    IF result = <<>>
    THEN [expr |-> <<>>, err |-> ErrEmptyExpression]
    ELSE [expr |-> result, err |-> Nil]

\* A mutant of StepLeave: a group that the input leaves open is an error.
StepLeaveStrict(st) ==
    [st EXCEPT !.pos = IF /\ st.pos < Len(st.tokens)
                          /\ Cur(st).Type = tokenRParen
                       THEN st.pos + 1 ELSE st.pos,
               !.stack = Pop(st.stack),
               !.ret = IF Len(st.stack) > 1 /\ Cur(st).Type = tokenEOF
                       THEN [expr |-> <<>>, err |-> ErrEmptyExpression]
                       ELSE Joined(Join(Top(st).parts, <<"+">>)),
               !.pc = "ret"]

\* A mutant of StepLeave: the closing ")" is left in place.
StepLeaveKeepsClose(st) ==
    [st EXCEPT !.stack = Pop(st.stack),
               !.ret = Joined(Join(Top(st).parts, <<"+">>)),
               !.pc = "ret"]

\* A mutant of StepLeave: the token that ends the loop is always consumed.
StepLeaveAlwaysAdvance(st) ==
    [st EXCEPT !.pos = st.pos + 1,
               !.stack = Pop(st.stack),
               !.ret = Joined(Join(Top(st).parts, <<"+">>)),
               !.pc = "ret"]

\* After the loop: a closing ")" is consumed, the parts are joined and the
\* call returns.
StepLeave(st) ==
    [st EXCEPT !.pos = IF /\ st.pos < Len(st.tokens)
                          /\ Cur(st).Type = tokenRParen
                       THEN st.pos + 1 ELSE st.pos,
               !.stack = Pop(st.stack),
               !.ret = Joined(Join(Top(st).parts, <<"+">>)),
               !.pc = "ret"]

\* A mutant of StepResume: the group is taken without its parentheses.
StepResumeFlat(st) ==
    IF st.ret.err # Nil
    THEN [st EXCEPT !.stack = Pop(st.stack),
                    !.ret = [expr |-> <<>>, err |-> st.ret.err]]
    ELSE [st EXCEPT !.stack = SetTopParts(st.stack,
                                  Append(Top(st).parts, st.ret.expr)),
                    !.pc = "loop"]

\* A mutant of StepResume: the error of the recursive call is dropped.
StepResumeIgnoreErr(st) ==
    [st EXCEPT !.stack = SetTopParts(st.stack,
                             Append(Top(st).parts,
                                    <<"(">> \o st.ret.expr \o <<")">>)),
               !.pc = "loop"]

\* The caller of a recursive call takes the group, or returns the error.
StepResume(st) ==
    IF st.ret.err # Nil
    THEN [st EXCEPT !.stack = Pop(st.stack),
                    !.ret = [expr |-> <<>>, err |-> st.ret.err]]
    ELSE [st EXCEPT !.stack = SetTopParts(st.stack,
                                  Append(Top(st).parts,
                                         <<"(">> \o st.ret.expr \o <<")">>)),
                    !.pc = "loop"]

\* A mutant of StepFinish: the outer ")" is forgotten.
StepFinishUnclosed(st) ==
    [st EXCEPT !.out = IF st.ret.err # Nil
                       THEN [str |-> <<>>, err |-> st.ret.err]
                       ELSE [str |-> <<"(">> \o st.ret.expr, err |-> Nil],
               !.pc = "done"]

\* A mutant of StepFinish: the string is built even when the call failed.
StepFinishPartial(st) ==
    [st EXCEPT !.out = [str |-> <<"(">> \o st.ret.expr \o <<")">>,
                        err |-> st.ret.err],
               !.pc = "done"]

\* A mutant of StepFinish: the tokens that follow the top level are parsed
\* as well.
StepFinishGoesOn(st) ==
    IF st.ret.err = Nil /\ st.pos < Len(st.tokens) - 1
    THEN [st EXCEPT !.stack = <<Frame(<<st.ret.expr>>)>>,
                    !.pc = "loop"]
    ELSE [st EXCEPT !.out = IF st.ret.err # Nil
                            THEN [str |-> <<>>, err |-> st.ret.err]
                            ELSE [str |-> <<"(">> \o st.ret.expr \o <<")">>,
                                  err |-> Nil],
                    !.pc = "done"]

\* ParseReconstructCategoryExpression after its call of parseExpression.
StepFinish(st) ==
    [st EXCEPT !.out = IF st.ret.err # Nil
                       THEN [str |-> <<>>, err |-> st.ret.err]
                       ELSE [str |-> <<"(">> \o st.ret.expr \o <<")">>,
                             err |-> Nil],
               !.pc = "done"]

\* The next step of an invocation that has not ended.
Step(st) ==
    CASE st.pc = "loop" /\ InLoop(st) /\ Cur(st).Type = tokenLParen ->
             StepLParen(st)
      [] st.pc = "loop" /\ InLoop(st) /\ Cur(st).Type = tokenIdent ->
             StepIdent(st)
      [] st.pc = "loop" /\ InLoop(st)
           /\ Cur(st).Type \in {tokenAnd, tokenOr, tokenNot} ->
             StepOperator(st)
      [] st.pc = "loop" /\ ~InLoop(st) -> StepLeave(st)
      [] st.pc = "ret" /\ st.stack # <<>> -> StepResume(st)
      [] st.pc = "ret" /\ st.stack = <<>> -> StepFinish(st)

RECURSIVE Run(_)
\* The invocation run to its end.
Run(st) == IF st.pc = "done" THEN st ELSE Run(Step(st))

\* The (string, error) that ParseReconstructCategoryExpression returns.
ParseReconstructCategoryExpression(input) == Run(Enter(input)).out

(***************************************************************************)
(* ParseReconstructGeneralExpression(input, prefix, suffix): the general   *)
(* variant, which decorates every identifier with the caller's prefix and  *)
(* suffix.  Its parts carry their kind; a term is a decorated identifier   *)
(* or a group.  tokens[pos + 1] is the current token.                      *)
(***************************************************************************)
RECURSIVE GeneralParse(_, _, _, _, _, _)
GeneralParse(tokens, pos, parts, lastIsTerm, prefix, suffix) ==
    LET tok == tokens[pos + 1] IN
    IF tok.Type \in {tokenRParen, tokenEOF}
    THEN [expr |-> Join(parts, <<"+">>),
          pos  |-> IF tok.Type = tokenRParen THEN pos + 1 ELSE pos]
    ELSE LET parts1 == IF lastIsTerm /\ tok.Type \in {tokenIdent, tokenLParen}
                       THEN Append(parts, KwAND) ELSE parts
         IN  CASE tok.Type = tokenLParen ->
                      LET sub == GeneralParse(tokens, pos + 1, <<>>, FALSE,
                                              prefix, suffix)
                      IN  GeneralParse(tokens, sub.pos,
                              Append(parts1, <<"(">> \o sub.expr \o <<")">>),
                              TRUE, prefix, suffix)
                [] tok.Type = tokenIdent ->
                      GeneralParse(tokens, pos + 1,
                          Append(parts1, prefix \o tok.Value \o suffix),
                          TRUE, prefix, suffix)
                [] OTHER ->
                      GeneralParse(tokens, pos + 1, Append(parts1, tok.Value),
                                   FALSE, prefix, suffix)

ParseReconstructGeneralExpression(input, prefix, suffix) ==
    LET top == GeneralParse(lex(input), 0, <<>>, FALSE, prefix, suffix) IN
    IF top.expr = <<>>
    THEN [str |-> <<>>, err |-> ErrEmptyExpression]
    ELSE [str |-> <<"(">> \o top.expr \o <<")">>, err |-> Nil]

(***************************************************************************)
(* The lenient variant of the parser: parseExpression joins its parts with *)
(* a space and never fails, and ParseReconstructCategoryExpression returns *)
(* one string.  tokens[pos + 1] is the current token.                      *)
(***************************************************************************)
\* A mutant of JoinedBySpace: the parts are written one after the other.
JoinedByNothing(parts) == Join(parts, <<>>)

\* strings.Join(parts, " ")
JoinedBySpace(parts) == Join(parts, <<" ">>)

RECURSIVE parseExpressionLenient(_, _, _)
\* parseExpression of the lenient variant from the token at pos on, parts
\* being gathered so far: the string it returns and the cursor it leaves.
parseExpressionLenient(tokens, pos, parts) ==
    IF \/ pos >= Len(tokens)
       \/ tokens[pos + 1].Type \in {tokenRParen, tokenEOF}
    THEN [expr |-> JoinedBySpace(parts),
          pos  |-> IF /\ pos < Len(tokens)
                      /\ tokens[pos + 1].Type = tokenRParen
                   THEN pos + 1 ELSE pos]
    ELSE LET tok == tokens[pos + 1]
             parts1 == ImplicitAnd(parts, tok)
         IN  CASE tok.Type = tokenLParen ->
                      LET sub == parseExpressionLenient(tokens, pos + 1, <<>>)
                      IN  parseExpressionLenient(tokens, sub.pos,
                              Append(parts1, <<"(">> \o sub.expr \o <<")">>))
                [] tok.Type = tokenIdent ->
                      parseExpressionLenient(tokens, pos + 1,
                          Append(parts1, CatPrefix \o tok.Value))
                [] tok.Type \in {tokenAnd, tokenOr, tokenNot} ->
                      parseExpressionLenient(tokens, pos + 1,
                          Append(parts1, tok.Value))

\* The string that the lenient ParseReconstructCategoryExpression returns.
ParseReconstructCategoryExpressionLenient(input) ==
    <<"(">> \o parseExpressionLenient(lex(input), 0, <<>>).expr \o <<")">>

(***************************************************************************)
(* The inputs of the model: at most MaxPieces pieces of Pieces, written    *)
(* one after the other or separated by one space, and at most MaxPieces    *)
(* pieces of SpacedPieces (spaces, tabs, newlines, an identifier and a     *)
(* parenthesis) written one after the other.                               *)
(***************************************************************************)
Pieces ==
    { <<"a">>, <<"B">>, <<"(">>, <<")">>, <<"+">>,
      <<"a", "n", "d">>, <<"O", "R">>, <<"n", "o", "T">> }

Seps == { <<>>, <<" ">> }

SpacedPieces == { <<" ">>, <<"\t">>, <<"\n">>, <<"a">>, <<"(">> }

PieceSeqs(pieces) == UNION { [1..k -> pieces] : k \in 0..MaxPieces }

Inputs ==
    { Join(ps, sep) : ps \in PieceSeqs(Pieces), sep \in Seps }
        \cup { Join(ps, <<>>) : ps \in PieceSeqs(SpacedPieces) }

\* Pieces that nest groups and set them side by side.
GroupPieces ==
    { <<"(">>, <<")">>, <<"a">>, <<"(", "B">>, <<")", ")">> }

\* The inputs of whole calls: those of Inputs, and groups within groups.
CallInputs ==
    Inputs \cup { Join(ps, <<>>) : ps \in PieceSeqs(GroupPieces) }

\* The prefix and suffix pairs given to the general variant.
Decorations ==
    { <<<<"p", "r", "e", "-">>, <<"-", "s", "u", "f">>>>,
      <<<<"p", "r", "e", "-">>, <<>>>>,
      <<<<>>, <<"-", "s", "u", "f">>>>,
      <<<<>>, <<>>>> }

(***************************************************************************)
(* The state machine: one invocation, step by step.                        *)
(***************************************************************************)
VARIABLES
    input,  \* the string given to the parser
    p,      \* the invocation that is parsing input, step by step
    call,   \* a whole call of an entry point on input, and what it returned
    arg,    \* concurrent callers: the input of each caller
    heap,   \* concurrent callers: the parser structs that were allocated
    frame,  \* concurrent callers: the call stack and the position of each
    lx,     \* one call of lex on input, step by step
    tx,     \* one call of fetchCategoryTaxonomy, step by step
    rl,     \* the rate limiter, the clock and the category-fetch handlers
    rq,     \* the request of one category fetch: its arguments and its url
    hd,     \* one call of ArxivToolHandler.Handle, step by step
    srv,    \* Serve in HTTP mode: its goroutines, channels and signals
    dl      \* one call of DownloadURLToS3, step by step

vars == <<input, p, call, arg, heap, frame, lx, tx, rl, rq, hd, srv, dl>>

\* No entry point has been called as a whole.
NoCall == [fn |-> "none", prefix |-> <<>>, suffix |-> <<>>,
           out |-> [str |-> <<>>, err |-> Nil]]

\* There are no concurrent callers.
NoCallers == arg = <<>> /\ heap = <<>> /\ frame = <<>>

callerVars == <<arg, heap, frame>>

\* lex, fetchCategoryTaxonomy and the category-fetch tool are not running.
NoLexer == [pc |-> "off"]
NoTaxonomy == [pc |-> "off"]
NoLimiter == [pc |-> "off"]

\* No request is built, and Handle, Serve and DownloadURLToS3 are not
\* running.
NoRequest == [pc |-> "off"]
NoHandle == [pc |-> "off"]
NoServe == [pc |-> "off"]
NoDownload == [pc |-> "off"]

toolVars == <<rq, hd, srv, dl>>

NoTools == rq = NoRequest /\ hd = NoHandle /\ srv = NoServe /\ dl = NoDownload

NoServer == lx = NoLexer /\ tx = NoTaxonomy /\ rl = NoLimiter /\ NoTools

\* The variables that the steps of one invocation leave alone.
besideParser == <<call, callerVars, lx, tx, rl, toolVars>>

\* The variables that a whole call leaves alone.
besideCall == <<p, callerVars, lx, tx, rl, toolVars>>

\* The variables that concurrent callers leave alone.
besideCallers == <<input, p, call, lx, tx, rl, toolVars>>

\* The variables that lex leaves alone.
besideLexer == <<p, call, callerVars, tx, rl, toolVars>>

\* The variables that fetchCategoryTaxonomy leaves alone.
besideTaxonomy == <<input, p, call, callerVars, lx, rl, toolVars>>

\* The variables that building a request leaves alone.
besideRequest == <<input, p, call, callerVars, lx, tx, rl, hd, srv, dl>>

\* The variables that Handle leaves alone.
besideHandle == <<input, p, call, callerVars, lx, tx, rl, rq, srv, dl>>

\* The variables that Serve leaves alone.
besideServe == <<input, p, call, callerVars, lx, tx, rl, rq, hd, dl>>

\* The variables that DownloadURLToS3 leaves alone.
besideDownload == <<input, p, call, callerVars, lx, tx, rl, rq, hd, srv>>

\* The variables that the category-fetch tool leaves alone.
besideLimiter == <<input, p, call, callerVars, lx, tx, toolVars>>

Idle == [tokens |-> <<>>, pos |-> 0, stack |-> <<>>,
         ret |-> [expr |-> <<>>, err |-> Nil],
         out |-> [str |-> <<>>, err |-> Nil],
         pc |-> "call"]

\* The state outside the tools of the server.
NoParsing == input = <<>> /\ p = Idle /\ call = NoCall /\ NoCallers

Init ==
    /\ input \in Inputs
    /\ p = Idle
    /\ call = NoCall
    /\ NoCallers
    /\ NoServer

Call ==
    /\ p.pc = "call"
    /\ p' = Enter(input)
    /\ UNCHANGED <<input, besideParser>>

ParseLParen ==
    /\ p.pc = "loop" /\ InLoop(p) /\ Cur(p).Type = tokenLParen
    /\ p' = StepLParen(p)
    /\ UNCHANGED <<input, besideParser>>

ParseIdent ==
    /\ p.pc = "loop" /\ InLoop(p) /\ Cur(p).Type = tokenIdent
    /\ p' = StepIdent(p)
    /\ UNCHANGED <<input, besideParser>>

ParseOperator ==
    /\ p.pc = "loop" /\ InLoop(p)
    /\ Cur(p).Type \in {tokenAnd, tokenOr, tokenNot}
    /\ p' = StepOperator(p)
    /\ UNCHANGED <<input, besideParser>>

Leave ==
    /\ p.pc = "loop" /\ ~InLoop(p)
    /\ p' = StepLeave(p)
    /\ UNCHANGED <<input, besideParser>>

Resume ==
    /\ p.pc = "ret" /\ p.stack # <<>>
    /\ p' = StepResume(p)
    /\ UNCHANGED <<input, besideParser>>

Finish ==
    /\ p.pc = "ret" /\ p.stack = <<>>
    /\ p' = StepFinish(p)
    /\ UNCHANGED <<input, besideParser>>

Next ==
    \/ Call
    \/ ParseLParen
    \/ ParseIdent
    \/ ParseOperator
    \/ Leave
    \/ Resume
    \/ Finish

Spec == Init /\ [][Next]_vars

\* The steps of a parse, from the call of parseExpression to the end.
ParseSteps ==
    \/ ParseLParen
    \/ ParseIdent
    \/ ParseOperator
    \/ Leave
    \/ Resume
    \/ Finish

\* Once parseExpression is called, the invocation runs on: it is
\* sequential code that nothing blocks.
SpecFair == Spec /\ WF_vars(ParseSteps)

(***************************************************************************)
(* The entry points as functions: one call of                              *)
(* ParseReconstructCategoryExpression(input), or of                        *)
(* ParseReconstructGeneralExpression(input, prefix, suffix), from its      *)
(* arguments to the values it returns.                                     *)
(***************************************************************************)
InitApply ==
    /\ input \in CallInputs
    /\ p = Idle
    /\ call = NoCall
    /\ NoCallers
    /\ NoServer

CallCategory ==
    /\ call = NoCall
    /\ call' = [fn     |-> "category",
                prefix |-> CatPrefix,
                suffix |-> <<>>,
                out    |-> ParseReconstructCategoryExpression(input)]
    /\ UNCHANGED <<input, besideCall>>

CallGeneral ==
    /\ call = NoCall
    /\ \E d \in Decorations :
          call' = [fn     |-> "general",
                   prefix |-> d[1],
                   suffix |-> d[2],
                   out    |-> ParseReconstructGeneralExpression(
                                  input, d[1], d[2])]
    /\ UNCHANGED <<input, besideCall>>

NextApply ==
    \/ CallCategory
    \/ CallGeneral

SpecApply == InitApply /\ [][NextApply]_vars

(***************************************************************************)
(* Concurrent callers: every caller runs                                   *)
(* ParseReconstructCategoryExpression on its own input, and the steps of   *)
(* the invocations interleave.  An invocation allocates its parser struct  *)
(* (tokens, pos) on the heap and keeps its parts, and the values that go   *)
(* from call to call, on its own stack.                                    *)
(***************************************************************************)
Callers == {1, 2}

CallerPieces == { <<"a">>, <<"(">>, <<")">>, <<"+">> }

CallerInputs ==
    { Join(ps, <<>>) :
        ps \in UNION { [1..k -> CallerPieces] : k \in 0..MaxCallerPieces } }

\* A mutant of parserOf: one parser struct, kept at package level.
parserShared(c) == 1

\* The parser struct of caller c: the one its invocation has allocated.
parserOf(c) == c

NotEntered == [stack |-> <<>>,
               ret   |-> [expr |-> <<>>, err |-> Nil],
               out   |-> [str |-> <<>>, err |-> Nil],
               pc    |-> "call"]

InitCallers ==
    /\ input = <<>>
    /\ p = Idle
    /\ call = NoCall
    /\ arg \in [Callers -> CallerInputs]
    /\ heap = [c \in Callers |-> [tokens |-> <<>>, pos |-> 0]]
    /\ frame = [c \in Callers |-> NotEntered]
    /\ NoServer

\* The invocation of caller c: its parser struct and its stack.
Invocation(c) ==
    [tokens |-> heap[parserOf(c)].tokens,
     pos    |-> heap[parserOf(c)].pos,
     stack  |-> frame[c].stack,
     ret    |-> frame[c].ret,
     out    |-> frame[c].out,
     pc     |-> frame[c].pc]

\* The invocation of caller c becomes st.
Becomes(c, st) ==
    /\ heap' = [heap EXCEPT ![parserOf(c)] =
                                [tokens |-> st.tokens, pos |-> st.pos]]
    /\ frame' = [frame EXCEPT ![c] =
                    [stack |-> st.stack, ret |-> st.ret,
                     out |-> st.out, pc |-> st.pc]]
    /\ UNCHANGED <<arg, besideCallers>>

CallerCall(c) ==
    /\ frame[c].pc = "call"
    /\ Becomes(c, Enter(arg[c]))

CallerParseLParen(c) ==
    LET st == Invocation(c) IN
    /\ st.pc = "loop" /\ InLoop(st) /\ Cur(st).Type = tokenLParen
    /\ Becomes(c, StepLParen(st))

CallerParseIdent(c) ==
    LET st == Invocation(c) IN
    /\ st.pc = "loop" /\ InLoop(st) /\ Cur(st).Type = tokenIdent
    /\ Becomes(c, StepIdent(st))

CallerParseOperator(c) ==
    LET st == Invocation(c) IN
    /\ st.pc = "loop" /\ InLoop(st)
    /\ Cur(st).Type \in {tokenAnd, tokenOr, tokenNot}
    /\ Becomes(c, StepOperator(st))

CallerLeave(c) ==
    LET st == Invocation(c) IN
    /\ st.pc = "loop" /\ ~InLoop(st)
    /\ Becomes(c, StepLeave(st))

CallerResume(c) ==
    LET st == Invocation(c) IN
    /\ st.pc = "ret" /\ st.stack # <<>>
    /\ Becomes(c, StepResume(st))

CallerFinish(c) ==
    LET st == Invocation(c) IN
    /\ st.pc = "ret" /\ st.stack = <<>>
    /\ Becomes(c, StepFinish(st))

NextCallers ==
    \E c \in Callers :
        \/ CallerCall(c)
        \/ CallerParseLParen(c)
        \/ CallerParseIdent(c)
        \/ CallerParseOperator(c)
        \/ CallerLeave(c)
        \/ CallerResume(c)
        \/ CallerFinish(c)

SpecCallers == InitCallers /\ [][NextCallers]_vars

(***************************************************************************)
(* lex, step by step: the meta-characters are padded, the string is split  *)
(* into fields, every field gives one token, and EOF is appended.  The     *)
(* inputs hold the shorthand operators, comparison signs, keywords and     *)
(* whitespace.                                                             *)
(***************************************************************************)
LexPieces ==
    { <<"a">>, <<">">>, <<"<", "=">>, <<"-">>, <<"|">>, <<"(">>, <<")">>,
      <<"+">>, <<"O", "r">>, <<"n", "o", "T">>, <<" ">>, <<"\t">> }

LexInputs ==
    { Join(ps, <<>>) :
        ps \in UNION { [1..k -> LexPieces] : k \in 0..MaxLexPieces } }

InitLexer ==
    /\ input \in LexInputs
    /\ p = Idle
    /\ call = NoCall
    /\ NoCallers
    /\ lx = [pc |-> "pad", s |-> <<>>, fields |-> <<>>, tokens |-> <<>>]
    /\ tx = NoTaxonomy
    /\ rl = NoLimiter
    /\ NoTools

\* The five strings.ReplaceAll.
LexPad ==
    /\ lx.pc = "pad"
    /\ lx' = [lx EXCEPT !.s = Padded(input), !.pc = "split"]
    /\ UNCHANGED <<input, besideLexer>>

\* strings.Fields
LexSplit ==
    /\ lx.pc = "split"
    /\ lx' = [lx EXCEPT !.fields = Fields(lx.s), !.pc = "range"]
    /\ UNCHANGED <<input, besideLexer>>

\* One iteration of the loop over the fields: the switch appends a token.
LexClassify ==
    /\ lx.pc = "range"
    /\ Len(lx.tokens) < Len(lx.fields)
    /\ lx' = [lx EXCEPT !.tokens =
                  Append(lx.tokens, Classify(lx.fields[Len(lx.tokens) + 1]))]
    /\ UNCHANGED <<input, besideLexer>>

\* After the loop: EOF is appended and the tokens are returned.
LexReturn ==
    /\ lx.pc = "range"
    /\ Len(lx.tokens) = Len(lx.fields)
    /\ lx' = [lx EXCEPT !.tokens = Append(lx.tokens, token(tokenEOF, <<>>)),
                        !.pc = "done"]
    /\ UNCHANGED <<input, besideLexer>>

NextLexer ==
    \/ LexPad
    \/ LexSplit
    \/ LexClassify
    \/ LexReturn

SpecLexer == InitLexer /\ [][NextLexer]_vars

(***************************************************************************)
(* fetchCategoryTaxonomy: the taxonomy page is fetched and parsed; every   *)
(* h4 heading below an h2.accordion-head heading gives a category, and the *)
(* first category of a group gives the group.                              *)
(***************************************************************************)
\* The upper bound on the h4 headings of a page.
MaxHeadings == 3

\* The lower-case letter of every upper-case letter.
LowerOf ==
    [c \in {UpperLetters[i] : i \in 1..26} |->
        LowerLetters[CHOOSE i \in 1..26 : UpperLetters[i] = c]]

\* unicode.ToLower of one character.
ToLowerChar(c) == IF c \in DOMAIN LowerOf THEN LowerOf[c] ELSE c

\* strings.ToLower
ToLower(s) == [i \in 1..Len(s) |-> ToLowerChar(s[i])]

RECURSIVE TrimLeft(_, _)
\* strings.TrimLeft(s, cutset), cutset being a set of characters
TrimLeft(s, cutset) ==
    IF s # <<>> /\ Head(s) \in cutset THEN TrimLeft(Tail(s), cutset) ELSE s

RECURSIVE TrimRight(_, _)
\* strings.TrimRight(s, cutset)
TrimRight(s, cutset) ==
    IF s # <<>> /\ Last(s) \in cutset
    THEN TrimRight(SubSeq(s, 1, Len(s) - 1), cutset)
    ELSE s

\* strings.Trim(s, cutset)
Trim(s, cutset) == TrimRight(TrimLeft(s, cutset), cutset)

\* strings.TrimSpace
TrimSpace(s) == Trim(s, {" ", "\t", "\n", "\r"})

\* strings.Index(s, c) for a one-character c: the index, from 0, of the
\* first c of s, and -1 when s holds none.
Index(s, c) ==
    IF \E i \in 1..Len(s) : s[i] = c
    THEN (CHOOSE i \in 1..Len(s) :
              s[i] = c /\ \A j \in 1..(i - 1) : s[j] # c) - 1
    ELSE -1

\* areaMap of deriveAreaCode
areaMap ==
    (<<"C", "o", "m", "p", "u", "t", "e", "r", " ", "S", "c", "i", "e",
          "n", "c", "e">>
        :> <<"c", "s">>) @@
    (<<"E", "c", "o", "n", "o", "m", "i", "c", "s">>
        :> <<"e", "c", "o", "n">>) @@
    (<<"E", "l", "e", "c", "t", "r", "i", "c", "a", "l", " ", "E", "n",
          "g", "i", "n", "e", "e", "r", "i", "n", "g", " ", "a", "n", "d",
          " ", "S", "y", "s", "t", "e", "m", "s", " ", "S", "c", "i", "e",
          "n", "c", "e">>
        :> <<"e", "e", "s", "s">>) @@
    (<<"M", "a", "t", "h", "e", "m", "a", "t", "i", "c", "s">>
        :> <<"m", "a", "t", "h">>) @@
    (<<"P", "h", "y", "s", "i", "c", "s">>
        :> <<"p", "h", "y", "s", "i", "c", "s">>) @@
    (<<"Q", "u", "a", "n", "t", "i", "t", "a", "t", "i", "v", "e", " ",
          "B", "i", "o", "l", "o", "g", "y">>
        :> <<"q", "-", "b", "i", "o">>) @@
    (<<"Q", "u", "a", "n", "t", "i", "t", "a", "t", "i", "v", "e", " ",
          "F", "i", "n", "a", "n", "c", "e">>
        :> <<"q", "-", "f", "i", "n">>) @@
    (<<"S", "t", "a", "t", "i", "s", "t", "i", "c", "s">>
        :> <<"s", "t", "a", "t">>)

\* deriveAreaCode
deriveAreaCode(areaName) ==
    IF areaName \in DOMAIN areaMap
    THEN areaMap[areaName]
    ELSE ToLower(ReplaceAll(areaName, " ", <<"-">>))

\* deriveGroupCode cutting at every first dot, the one at index 0 too.
deriveGroupCodeAnyDot(categoryCode) ==
    LET idx == Index(categoryCode, ".")
    IN  IF idx >= 0 THEN SubSeq(categoryCode, 1, idx) ELSE categoryCode

\* deriveGroupCode
deriveGroupCode(categoryCode) ==
    LET idx == Index(categoryCode, ".")
    IN  IF idx > 0 THEN SubSeq(categoryCode, 1, idx) ELSE categoryCode

\* Group{Code, Name, Classification}; Description is left empty.
Group(code, name, classification) ==
    [Code |-> code, Name |-> name, Classification |-> classification,
     Description |-> <<>>]

\* Category{Code, Name, Description}
Category(code, name, description) ==
    [Code |-> code, Name |-> name, Description |-> description]

\* m[key] = value of a Go map
Put(m, key, value) ==
    [k \in DOMAIN m \cup {key} |-> IF k = key THEN value ELSE m[k]]

\* The text of the h2 headings: a name deriveAreaCode knows, with white
\* space around it, and one it does not know.
AreaTexts ==
    { <<" ", "C", "o", "m", "p", "u", "t", "e", "r", " ",
        "S", "c", "i", "e", "n", "c", "e", "\n">>,
      <<"N", "e", "w", " ", "A", "r", "e", "a">> }

\* The h4 headings: their text, the text of their span, and the text of
\* the paragraph beside them.
Headings ==
    { [text |-> <<"c", "s", ".", "A", "I", " ", "(", "A", "I", ")">>,
       span |-> <<"(", "A", "I", ")">>, desc |-> <<" ", "d", "\n">>],
      [text |-> <<"c", "s", ".", "L", "G", " ", "(", "M", "L", ")">>,
       span |-> <<"(", "M", "L", ")">>, desc |-> <<"d">>],
      [text |-> <<"c", "s", ".", "A", "I", " ", "(", "B", ")">>,
       span |-> <<"(", "B", ")">>, desc |-> <<>>],
      [text |-> <<"h", "e", "p", "-", "p", "h", " ", "(", "P", ")">>,
       span |-> <<"(", "P", ")">>, desc |-> <<"d">>],
      [text |-> <<" ", "\n">>,
       span |-> <<>>, desc |-> <<>>],
      [text |-> <<".", "x", ".", "y", " ", "(", "D", ")">>,
       span |-> <<"(", "D", ")">>, desc |-> <<"d">>],
      [text |-> <<"c", "s">>,
       span |-> <<>>, desc |-> <<"d">>] }

\* A page is its h4 headings in document order, each below its h2 heading.
Pages ==
    UNION { [1..k -> [area : AreaTexts, heading : Headings]] :
                k \in 0..MaxHeadings }

NoError == [taxonomy |-> Nil, err |-> Nil]

\* What fetchCategoryTaxonomy returns without a taxonomy.
FetchErrors ==
    { "failed to create configured HTTP client",
      "failed to fetch taxonomy",
      "failed to fetch taxonomy: HTTP",
      "failed to parse HTML" }

InitTaxonomy ==
    /\ input = <<>>
    /\ p = Idle
    /\ call = NoCall
    /\ NoCallers
    /\ lx = NoLexer
    /\ rl = NoLimiter
    /\ NoTools
    /\ \E page \in Pages :
          tx = [pc |-> "fetch", page |-> page, i |-> 0,
                Groups |-> <<>>, Categories |-> <<>>, seenGroups |-> {},
                out |-> NoError]

\* The client is not created, the request fails, the status is not 200, or
\* the body is no HTML: the error is returned.
FetchFails ==
    /\ tx.pc = "fetch"
    /\ \E e \in FetchErrors :
          tx' = [tx EXCEPT !.out = [taxonomy |-> Nil, err |-> e],
                           !.pc = "done"]
    /\ UNCHANGED besideTaxonomy

\* The page is fetched and parsed; the maps are made.
FetchPage ==
    /\ tx.pc = "fetch"
    /\ tx' = [tx EXCEPT !.pc = "each"]
    /\ UNCHANGED besideTaxonomy

\* The h4 heading the loop is at, and what the callback reads from it.
Entry == tx.page[tx.i + 1]

areaNameOf(e) == TrimSpace(e.area)

partsOf(e) == Fields(e.heading.text)

categoryNameOf(e) == Trim(TrimSpace(e.heading.span), {"(", ")"})

descriptionOf(e) == TrimSpace(e.heading.desc)

\* A heading without text: the callback returns.
EachEmpty ==
    /\ tx.pc = "each"
    /\ tx.i < Len(tx.page)
    /\ Len(partsOf(Entry)) < 1
    /\ tx' = [tx EXCEPT !.i = @ + 1]
    /\ UNCHANGED besideTaxonomy

\* A heading of a group that was not seen: the group and the category are
\* added.
EachNewGroup ==
    /\ tx.pc = "each"
    /\ tx.i < Len(tx.page)
    /\ Len(partsOf(Entry)) >= 1
    /\ LET areaName     == areaNameOf(Entry)
           areaCode     == deriveAreaCode(areaName)
           categoryCode == partsOf(Entry)[1]
           categoryName == categoryNameOf(Entry)
           groupCode    == deriveGroupCode(categoryCode)
           groupName    == IF groupCode # areaCode THEN categoryName
                                                   ELSE areaName
       IN  /\ groupCode \notin tx.seenGroups
           /\ tx' = [tx EXCEPT
                  !.seenGroups = @ \cup {groupCode},
                  !.Groups = Put(@, groupCode,
                                 Group(groupCode, groupName, areaName)),
                  !.Categories = Put(@, categoryCode,
                                     Category(categoryCode, categoryName,
                                              descriptionOf(Entry))),
                  !.i = @ + 1]
    /\ UNCHANGED besideTaxonomy

\* A heading of a group that was seen: the category is added.
EachSeenGroup ==
    /\ tx.pc = "each"
    /\ tx.i < Len(tx.page)
    /\ Len(partsOf(Entry)) >= 1
    /\ LET categoryCode == partsOf(Entry)[1]
           groupCode    == deriveGroupCode(categoryCode)
       IN  /\ groupCode \in tx.seenGroups
           /\ tx' = [tx EXCEPT
                  !.Categories = Put(@, categoryCode,
                                     Category(categoryCode,
                                              categoryNameOf(Entry),
                                              descriptionOf(Entry))),
                  !.i = @ + 1]
    /\ UNCHANGED besideTaxonomy

\* After the headings, no category was found: an error is returned.
ReturnNoCategories ==
    /\ tx.pc = "each"
    /\ tx.i = Len(tx.page)
    /\ DOMAIN tx.Categories = {}
    /\ tx' = [tx EXCEPT
           !.out = [taxonomy |-> Nil,
                    err |-> "no categories found in taxonomy"],
           !.pc = "done"]
    /\ UNCHANGED besideTaxonomy

\* After the headings: the taxonomy is returned.
ReturnTaxonomy ==
    /\ tx.pc = "each"
    /\ tx.i = Len(tx.page)
    /\ DOMAIN tx.Categories # {}
    /\ tx' = [tx EXCEPT
           !.out = [taxonomy |-> [Groups |-> tx.Groups,
                                  Categories |-> tx.Categories],
                    err |-> Nil],
           !.pc = "done"]
    /\ UNCHANGED besideTaxonomy

NextTaxonomy ==
    \/ FetchFails
    \/ FetchPage
    \/ EachEmpty
    \/ EachNewGroup
    \/ EachSeenGroup
    \/ ReturnNoCategories
    \/ ReturnTaxonomy

SpecTaxonomy == InitTaxonomy /\ [][NextTaxonomy]_vars

(***************************************************************************)
(* categoryFetchLatest and arxivRateLimiter: every invocation parses its   *)
(* category expression, waits for the shared limiter, creates its HTTP     *)
(* client and sends its request.  The clock counts seconds.  Wait is       *)
(* golang.org/x/time/rate's: a token bucket that holds at most Burst       *)
(* tokens and gains one token every Period seconds; a caller reserves a    *)
(* token under the limiter's lock and sleeps until the time the token is   *)
(* there.  Tokens are counted in Period-ths of a token, so that one        *)
(* second adds one.                                                        *)
(***************************************************************************)
\* rate.Every(3*time.Second)
Period == 3

\* The burst of rate.NewLimiter
Burst == 1

\* The last second of the clock.
MaxTime == 6

\* The concurrent invocations of the tool.
Invocations == {1, 2, 3}

\* args.Category of the invocations: an empty and a plain expression.
CategoryArgs == { <<>>, <<"c", "s", ".", "A", "I">> }

NotStarted == -1

\* waits counts the calls of Wait, granted says that Wait returned nil, and
\* requests counts the calls of httpClient.Get.
NotInvoked == [pc |-> "idle", timeToAct |-> 0, started |-> NotStarted,
               waits |-> 0, granted |-> FALSE, requests |-> 0,
               err |-> Nil]

InitLimiter ==
    /\ input = <<>>
    /\ p = Idle
    /\ call = NoCall
    /\ NoCallers
    /\ lx = NoLexer
    /\ tx = NoTaxonomy
    /\ NoTools
    /\ rl = [pc |-> "on", now |-> 0,
             last |-> 0, tokens |-> Burst * Period, lastEvent |-> 0,
             inv |-> [i \in Invocations |-> NotInvoked]]

Min(a, b) == IF a <= b THEN a ELSE b

\* Limiter.advance: the tokens the bucket holds at time t.
advance(t) == Min(Burst * Period, rl.tokens + (t - rl.last))

\* The invocation i goes on as its record r says.
Goes(i, r) == [rl EXCEPT !.inv[i] = r]

\* time passes
Tick ==
    /\ rl.pc = "on"
    /\ rl.now < MaxTime
    /\ rl' = [rl EXCEPT !.now = @ + 1]
    /\ UNCHANGED besideLimiter

\* json.Unmarshal of the arguments fails.
UnmarshalFails(i) ==
    /\ rl.pc = "on"
    /\ rl.inv[i].pc = "idle"
    /\ rl' = Goes(i, [rl.inv[i] EXCEPT
                        !.pc = "done",
                        !.err = "failed to unmarshal arguments"])
    /\ UNCHANGED besideLimiter

\* ParseCategory going on to the limiter with the error of the parser.
ParseCategoryKeepsOn(i) ==
    /\ rl.pc = "on"
    /\ rl.inv[i].pc = "idle"
    /\ \E category \in CategoryArgs :
          LET parsed == ParseReconstructCategoryExpression(category)
          IN  rl' = Goes(i, [rl.inv[i] EXCEPT
                               !.pc = "wait",
                               !.err = IF parsed.err # Nil
                                       THEN "failed to parse category expression"
                                       ELSE Nil])
    /\ UNCHANGED besideLimiter

\* categoryFetchLatest up to the limiter: the arguments are unmarshalled
\* and the category expression is parsed.
ParseCategory(i) ==
    /\ rl.pc = "on"
    /\ rl.inv[i].pc = "idle"
    /\ \E category \in CategoryArgs :
          LET parsed == ParseReconstructCategoryExpression(category)
          IN  rl' = Goes(i, IF parsed.err # Nil
                            THEN [rl.inv[i] EXCEPT
                                    !.pc = "done",
                                    !.err = "failed to parse category expression"]
                            ELSE [rl.inv[i] EXCEPT !.pc = "wait"])
    /\ UNCHANGED besideLimiter

\* Wait, reserveN: a token is taken; the caller returns at once when the
\* bucket held one, and sleeps until it is there otherwise.
WaitReserve(i) ==
    /\ rl.pc = "on"
    /\ rl.inv[i].pc = "wait"
    /\ LET tokens       == advance(rl.now) - Period
           waitDuration == IF tokens < 0 THEN -tokens ELSE 0
           timeToAct    == rl.now + waitDuration
       IN  rl' = [rl EXCEPT
                  !.last = rl.now,
                  !.tokens = tokens,
                  !.lastEvent = timeToAct,
                  !.inv[i] = [@ EXCEPT
                      !.pc = IF waitDuration = 0 THEN "granted" ELSE "sleep",
                      !.waits = @ + 1,
                      !.granted = (waitDuration = 0),
                      !.timeToAct = timeToAct]]
    /\ UNCHANGED besideLimiter

\* Wait: the timer fires, at timeToAct or later.
WaitWake(i) ==
    /\ rl.pc = "on"
    /\ rl.inv[i].pc = "sleep"
    /\ rl.now >= rl.inv[i].timeToAct
    /\ rl' = Goes(i, [rl.inv[i] EXCEPT !.pc = "granted", !.granted = TRUE])
    /\ UNCHANGED besideLimiter

\* Wait: the context is cancelled before the token is reserved.
WaitNotEntered(i) ==
    /\ rl.pc = "on"
    /\ rl.inv[i].pc = "wait"
    /\ rl' = Goes(i, [rl.inv[i] EXCEPT !.pc = "done",
                                       !.waits = @ + 1,
                                       !.err = "rate limiter error"])
    /\ UNCHANGED besideLimiter

\* Wait: the context is cancelled while the caller sleeps.  Reservation.
\* Cancel gives the token back unless later reservations were made on it.
WaitCancelled(i) ==
    /\ rl.pc = "on"
    /\ rl.inv[i].pc = "sleep"
    /\ LET r             == rl.inv[i]
           restoreTokens == Period - (rl.lastEvent - r.timeToAct)
           prevEvent     == r.timeToAct - Period
           gone          == [r EXCEPT !.pc = "done",
                                      !.err = "rate limiter error"]
       IN  rl' = IF r.timeToAct < rl.now \/ restoreTokens <= 0
                 THEN Goes(i, gone)
                 ELSE [rl EXCEPT
                         !.last = rl.now,
                         !.tokens = Min(Burst * Period,
                                        advance(rl.now) + restoreTokens),
                         !.lastEvent = IF r.timeToAct = rl.lastEvent
                                          /\ prevEvent >= rl.now
                                       THEN prevEvent ELSE @,
                         !.inv[i] = gone]
    /\ UNCHANGED besideLimiter

\* CreateConfiguredHTTPClient fails.
ClientFails(i) ==
    /\ rl.pc = "on"
    /\ rl.inv[i].pc = "granted"
    /\ rl' = Goes(i, [rl.inv[i] EXCEPT
                        !.pc = "done",
                        !.err = "failed to create configured HTTP client"])
    /\ UNCHANGED besideLimiter

\* The most requests the retrying Get below sends.
MaxTries == 2

\* Get sending the request again when it failed.
GetRetries(i) ==
    /\ rl.pc = "on"
    /\ rl.inv[i].pc = "granted"
    /\ rl.inv[i].requests < MaxTries
    /\ \E err \in {Nil, "failed to fetch from arXiv"} :
          rl' = Goes(i, [rl.inv[i] EXCEPT
                           !.pc = IF err = Nil THEN "read" ELSE "granted",
                           !.started = rl.now,
                           !.requests = @ + 1])
    /\ UNCHANGED besideLimiter

\* The url is built, the client is created and httpClient.Get sends the
\* request; when it fails the error is returned.
Get(i) ==
    /\ rl.pc = "on"
    /\ rl.inv[i].pc = "granted"
    /\ \E err \in {Nil, "failed to fetch from arXiv"} :
          rl' = Goes(i, [rl.inv[i] EXCEPT
                           !.pc = IF err = Nil THEN "read" ELSE "done",
                           !.started = rl.now,
                           !.requests = @ + 1,
                           !.err = err])
    /\ UNCHANGED besideLimiter

\* io.ReadAll of the body
ReadBody(i) ==
    /\ rl.pc = "on"
    /\ rl.inv[i].pc = "read"
    /\ \E err \in {Nil, "failed to read response body"} :
          rl' = Goes(i, [rl.inv[i] EXCEPT
                           !.pc = IF err = Nil THEN "feed" ELSE "done",
                           !.err = err])
    /\ UNCHANGED besideLimiter

\* gofeed's ParseString: the feed or the error is returned.
ParseFeed(i) ==
    /\ rl.pc = "on"
    /\ rl.inv[i].pc = "feed"
    /\ \E err \in {Nil, "failed to parse feed"} :
          rl' = Goes(i, [rl.inv[i] EXCEPT !.pc = "done", !.err = err])
    /\ UNCHANGED besideLimiter

NextLimiter ==
    \/ Tick
    \/ \E i \in Invocations :
          \/ UnmarshalFails(i)
          \/ ParseCategory(i)
          \/ WaitReserve(i)
          \/ WaitWake(i)
          \/ WaitNotEntered(i)
          \/ WaitCancelled(i)
          \/ ClientFails(i)
          \/ Get(i)
          \/ ReadBody(i)
          \/ ParseFeed(i)

SpecLimiter == InitLimiter /\ [][NextLimiter]_vars

(***************************************************************************)
(* The request of categoryFetchLatest: the category expression of the      *)
(* arguments is parsed and the url is put together from the endpoint, the  *)
(* search query, StartIndex and FetchSize, as strings are concatenated.    *)
(* The categories hold the characters that mean something in a url.        *)
(***************************************************************************)
\* The upper bound on the pieces of a category.
MaxQueryPieces == 3

arxivApiEndpoint ==
    <<"h", "t", "t", "p", "s", ":", "/", "/", "e", "x", "p", "o", "r", "t",
      ".", "a", "r", "x", "i", "v", ".", "o", "r", "g", "/", "a", "p", "i",
      "/", "q", "u", "e", "r", "y">>

QueryPieces ==
    { <<"a">>, <<"&", "s", "t", "a", "r", "t", "=", "9">>,
      <<"&">>, <<"=">>, <<"#">>, <<" ">>, <<"(">>, <<")">> }

RequestCategories ==
    { Join(ps, <<>>) :
        ps \in UNION { [1..k -> QueryPieces] : k \in 0..MaxQueryPieces } }

\* StartIndex and FetchSize of the arguments.
Indexes == {0, 7}
Sizes == {0, 25}

Digits == <<"0", "1", "2", "3", "4", "5", "6", "7", "8", "9">>

RECURSIVE Sprint(_)
\* fmt.Sprint of a uint
Sprint(n) ==
    IF n < 10 THEN <<Digits[n + 1]>>
    ELSE Sprint(n \div 10) \o <<Digits[(n % 10) + 1]>>

\* The url of the request for searchQuery.
RequestURL(searchQuery, StartIndex, FetchSize) ==
    arxivApiEndpoint
        \o <<"?", "s", "e", "a", "r", "c", "h", "_", "q", "u", "e", "r", "y", "=">>
        \o searchQuery
        \o <<"&", "s", "t", "a", "r", "t", "=">> \o Sprint(StartIndex)
        \o <<"&", "m", "a", "x", "_", "r", "e", "s", "u", "l", "t", "s",
             "=">>
        \o Sprint(FetchSize)
        \o <<"&", "s", "o", "r", "t", "B", "y", "=", "s", "u", "b", "m",
             "i", "t", "t", "e", "d", "D", "a", "t", "e", "&", "s", "o",
             "r", "t", "O", "r", "d", "e", "r", "=", "d", "e", "s", "c",
             "e", "n", "d", "i", "n", "g">>

InitRequest ==
    /\ NoParsing
    /\ lx = NoLexer
    /\ tx = NoTaxonomy
    /\ rl = NoLimiter
    /\ hd = NoHandle
    /\ srv = NoServe
    /\ dl = NoDownload
    /\ \E category \in RequestCategories, StartIndex \in Indexes,
          FetchSize \in Sizes :
          rq = [pc |-> "parse",
                args |-> [Category |-> category, StartIndex |-> StartIndex,
                          FetchSize |-> FetchSize],
                searchQuery |-> <<>>, url |-> <<>>, err |-> Nil]

\* ParseReconstructCategoryExpression(args.Category): the search query, or
\* the error that is returned.
ParseQuery ==
    /\ rq.pc = "parse"
    /\ LET parsed == ParseReconstructCategoryExpression(rq.args.Category)
       IN  rq' = IF parsed.err # Nil
                 THEN [rq EXCEPT !.pc = "done",
                                 !.err = "failed to parse category expression"]
                 ELSE [rq EXCEPT !.pc = "url", !.searchQuery = parsed.str]
    /\ UNCHANGED besideRequest

\* The url is put together; it is the one httpClient.Get is called with.
BuildURL ==
    /\ rq.pc = "url"
    /\ rq' = [rq EXCEPT
                !.url = RequestURL(rq.searchQuery, rq.args.StartIndex,
                                   rq.args.FetchSize),
                !.pc = "get"]
    /\ UNCHANGED besideRequest

NextRequest ==
    \/ ParseQuery
    \/ BuildURL

SpecRequest == InitRequest /\ [][NextRequest]_vars

(***************************************************************************)
(* ArxivToolHandler.Handle, step by step, around a handler function: the   *)
(* arguments are validated, the handler function is called, its result is  *)
(* marshalled and the output is validated.  The handler function is        *)
(* downloadPDFToMinIO, computed from the article url and from what the     *)
(* storage answers, or another one, known by what it returns.              *)
(***************************************************************************)
\* nil, where a struct or a string may stand.
NoValue == [nil |-> TRUE]

arxivAbsBaseURL ==
    <<"h", "t", "t", "p", "s", ":", "/", "/", "a", "r", "x", "i", "v", ".",
      "o", "r", "g", "/", "a", "b", "s", "/">>

arxivPDFBaseURL ==
    <<"h", "t", "t", "p", "s", ":", "/", "/", "a", "r", "x", "i", "v", ".",
      "o", "r", "g", "/", "p", "d", "f", "/">>

S3_ARTICLES_BUCKET ==
    <<"o", "p", "u", "s", "-", "m", "c", "p", "-", "a", "r", "t", "i", "c",
      "l", "e", "s">>

\* The index of the last c of s, and 0 when s holds none.
LastIndexOf(s, c) ==
    IF \E k \in 1..Len(s) : s[k] = c
    THEN CHOOSE k \in 1..Len(s) : s[k] = c /\ \A j \in (k + 1)..Len(s) : s[j] # c
    ELSE 0

\* parts[len(parts)-1] of parts := strings.Split(s, "/")
LastPart(s) == SubSeq(s, LastIndexOf(s, "/") + 1, Len(s))

DotPdf == <<".", "p", "d", "f">>

\* args.ArticleURL after the conversion of an Abs URL.
PDFURL(ArticleURL) ==
    IF HasPrefix(ArticleURL, arxivAbsBaseURL)
    THEN arxivPDFBaseURL \o LastPart(ArticleURL)
    ELSE ArticleURL

\* objectName of downloadPDFToMinIO
ObjectNameOf(ArticleURL) ==
    LET filename == LastPart(PDFURL(ArticleURL))
    IN  <<"a", "r", "x", "i", "v", "/">>
            \o (IF HasSuffix(filename, DotPdf) THEN filename
                                               ELSE filename \o DotPdf)

\* ArxivDownloadPDFOutput
ArxivDownloadPDFOutput(Success, Message, ObjectName, Bucket, Size, ETag) ==
    [Success |-> Success, Message |-> Message, ObjectName |-> ObjectName,
     Bucket |-> Bucket, Size |-> Size, ETag |-> ETag]

\* What storage.DownloadURLToMinIO returns: an error, or the UploadInfo of
\* the object that was written.
UploadOutcomes(objectName) ==
    { [info |-> NoValue, err |-> "download or upload failed"],
      [info |-> [Key |-> objectName, Bucket |-> S3_ARTICLES_BUCKET,
                 Size |-> 1, ETag |-> "etag"],
       err |-> Nil] }

\* downloadPDFToMinIO: what it returns for the article url, globalS3Config
\* being loaded or not, when the storage answers with upload.
downloadPDFToMinIO(unmarshalled, ArticleURL, s3Loaded, upload) ==
    IF ~unmarshalled
    THEN [result |-> NoValue, err |-> "failed to unmarshal arguments"]
    ELSE IF ~HasPrefix(PDFURL(ArticleURL), arxivPDFBaseURL)
    THEN [result |-> NoValue, err |-> "invalid PDF URL"]
    ELSE IF ~s3Loaded
    THEN [result |-> NoValue, err |-> "S3 configuration not loaded"]
    ELSE IF upload.err # Nil
    THEN [result |-> ArxivDownloadPDFOutput(
                         FALSE, "Failed to download and upload PDF",
                         ObjectNameOf(ArticleURL), <<>>, 0, ""),
          err |-> upload.err]
    ELSE [result |-> ArxivDownloadPDFOutput(
                         TRUE, "Successfully downloaded", upload.info.Key,
                         upload.info.Bucket, upload.info.Size,
                         upload.info.ETag),
          err |-> Nil]

\* The article urls of the requests: Abs and PDF urls of arXiv, with and
\* without .pdf, and a url of another site.
ArticleURLs ==
    { arxivAbsBaseURL \o <<"1", ".", "2">>,
      arxivPDFBaseURL \o <<"1", ".", "2">>,
      arxivPDFBaseURL \o <<"1", ".", "2">> \o DotPdf,
      arxivPDFBaseURL \o <<"a", "/", "b">>,
      arxivAbsBaseURL,
      <<"h", "t", "t", "p", ":", "/", "/", "x", ".", "o", "r", "g", "/",
        "1", ".", "p", "d", "f">> }

\* The arguments of a request: no JSON object, an object the input schema
\* refuses, or one it accepts.
ArgumentKinds == {"malformed", "invalid", "valid"}

\* The handler functions.
HandlerFuncs ==
    {"categoryFetchLatest", "fetchCategoryTaxonomy", "downloadPDFToMinIO"}

\* What a handler function other than downloadPDFToMinIO returns.
OtherOutcomes ==
    { [result |-> [output |-> "output"], err |-> Nil],
      [result |-> NoValue, err |-> "failed"] }

NoResult ==
    [IsError |-> FALSE, Content |-> NoValue, StructuredContent |-> NoValue]

InitHandle ==
    /\ NoParsing
    /\ lx = NoLexer
    /\ tx = NoTaxonomy
    /\ rl = NoLimiter
    /\ rq = NoRequest
    /\ srv = NoServe
    /\ dl = NoDownload
    /\ \E fn \in HandlerFuncs, kind \in ArgumentKinds, url \in ArticleURLs :
          hd = [pc |-> "validate input", handlerFunc |-> fn,
                Arguments |-> [kind |-> kind, ArticleURL |-> url],
                trace |-> <<>>, result |-> NoValue, err |-> Nil,
                outputJSON |-> NoValue, ret |-> NoResult, goErr |-> Nil,
                returned |-> FALSE]

\* mcp_tool_errorf
mcp_tool_errorf(text) ==
    [IsError |-> TRUE, Content |-> [Text |-> text],
     StructuredContent |-> NoValue]

\* Handle going on to the handler function whatever the validation says.
StepValidateInputLax(h) ==
    [h EXCEPT !.trace = Append(@, "validate input"), !.pc = "call"]

\* unmarshalAndValidate of the arguments against the input schema.
StepValidateInput(h) ==
    IF h.Arguments.kind # "valid"
    THEN [h EXCEPT !.trace = Append(@, "validate input"),
                   !.ret = mcp_tool_errorf("invalid input"),
                   !.goErr = Nil, !.returned = TRUE, !.pc = "done"]
    ELSE [h EXCEPT !.trace = Append(@, "validate input"), !.pc = "call"]

ValidateInput ==
    /\ hd.pc = "validate input"
    /\ hd' = StepValidateInput(hd)
    /\ UNCHANGED besideHandle

\* h.handlerFunc is called; its error ends Handle.
CallHandlerFunc ==
    /\ hd.pc = "call"
    /\ \E out \in IF hd.handlerFunc = "downloadPDFToMinIO"
                  THEN { downloadPDFToMinIO(hd.Arguments.kind = "valid",
                                            hd.Arguments.ArticleURL,
                                            TRUE, upload) :
                           upload \in UploadOutcomes(
                                        ObjectNameOf(hd.Arguments.ArticleURL)) }
                  ELSE OtherOutcomes :
          LET called == [hd EXCEPT !.trace = Append(@, "handler"),
                                   !.result = out.result, !.err = out.err]
          IN  hd' = IF out.err # Nil
                    THEN [called EXCEPT
                            !.ret = mcp_tool_errorf("handler error"),
                            !.goErr = Nil, !.returned = TRUE, !.pc = "done"]
                    ELSE [called EXCEPT !.pc = "marshal"]
    /\ UNCHANGED besideHandle

\* json.Marshal of the result
Marshal ==
    /\ hd.pc = "marshal"
    /\ \E ok \in BOOLEAN :
          LET tried == [hd EXCEPT !.trace = Append(@, "marshal")]
          IN  hd' = IF ~ok
                    THEN [tried EXCEPT
                            !.ret = mcp_tool_errorf("output failed to marshal"),
                            !.goErr = Nil, !.returned = TRUE, !.pc = "done"]
                    ELSE [tried EXCEPT !.outputJSON = [json |-> hd.result],
                                       !.pc = "validate output"]
    /\ UNCHANGED besideHandle

\* unmarshalAndValidate of the output against the output schema, and the
\* result of the tool.
ValidateOutput ==
    /\ hd.pc = "validate output"
    /\ \E ok \in BOOLEAN :
          LET tried == [hd EXCEPT !.trace = Append(@, "validate output")]
          IN  hd' = IF ~ok
                    THEN [tried EXCEPT
                            !.ret = mcp_tool_errorf("invalid output"),
                            !.goErr = Nil, !.returned = TRUE, !.pc = "done"]
                    ELSE [tried EXCEPT
                            !.ret = [IsError |-> FALSE,
                                     Content |-> [Text |-> hd.outputJSON],
                                     StructuredContent |-> hd.result],
                            !.goErr = Nil, !.returned = TRUE, !.pc = "done"]
    /\ UNCHANGED besideHandle

NextHandle ==
    \/ ValidateInput
    \/ CallHandlerFunc
    \/ Marshal
    \/ ValidateOutput

SpecHandle == InitHandle /\ [][NextHandle]_vars

(***************************************************************************)
(* Serve in HTTP mode: runServer makes the channels stop (signals) and     *)
(* serverErrors, starts ListenAndServe in a goroutine and waits in a       *)
(* select; a signal leads to Shutdown with a deadline, a server error or   *)
(* a Shutdown error to a panic, which the deferred function of Serve       *)
(* recovers.  Connections come and go while the server listens; Shutdown   *)
(* returns nil when none is left and the error of its context at the       *)
(* deadline.                                                               *)
(***************************************************************************)
\* The capacity of serverErrors: make(chan error, 1)
serverErrorsCap == 1

\* The capacity of stop: make(chan os.Signal, 1)
stopCap == 1

\* context.WithTimeout(context.Background(), 5*time.Second), in seconds
shutdownTimeout == 5

\* The upper bounds on the signals that are delivered and on the
\* connections that are open at a time.
MaxSignals == 2
MaxConns == 1

Signals == {"SIGINT", "SIGTERM"}

InitServe ==
    /\ NoParsing
    /\ lx = NoLexer
    /\ tx = NoTaxonomy
    /\ rl = NoLimiter
    /\ rq = NoRequest
    /\ hd = NoHandle
    /\ dl = NoDownload
    /\ srv = [pc |-> "notify", g |-> "none",
              stop |-> <<>>, serverErrors |-> <<>>,
              closed |-> FALSE, conns |-> 0,
              signals |-> 0, shutdowns |-> 0, deadline |-> 0, elapsed |-> 0,
              panic |-> Nil, recovered |-> FALSE]

\* stop is made and signal.Notify registers it; serverErrors is made.
Notify ==
    /\ srv.pc = "notify"
    /\ srv' = [srv EXCEPT !.pc = "go"]
    /\ UNCHANGED besideServe

\* go func() { ListenAndServe ... }()
Go ==
    /\ srv.pc = "go"
    /\ srv' = [srv EXCEPT !.pc = "select", !.g = "listen"]
    /\ UNCHANGED besideServe

\* A signal is delivered: it is put into stop when there is room for it,
\* and dropped otherwise.
Signal ==
    /\ srv.pc \notin {"notify", "returned"}
    /\ srv.signals < MaxSignals
    /\ \E sig \in Signals :
          srv' = [srv EXCEPT
                    !.signals = @ + 1,
                    !.stop = IF Len(@) < stopCap THEN Append(@, sig) ELSE @]
    /\ UNCHANGED besideServe

\* ListenAndServe cannot listen, or stops serving with an error.
ListenAndServeFails ==
    /\ srv.g \in {"listen", "serving"}
    /\ ~srv.closed
    /\ srv' = [srv EXCEPT !.g = "send"]
    /\ UNCHANGED besideServe

\* ListenAndServe listens.
Listen ==
    /\ srv.g = "listen"
    /\ ~srv.closed
    /\ srv' = [srv EXCEPT !.g = "serving"]
    /\ UNCHANGED besideServe

\* ListenAndServe returns http.ErrServerClosed after Shutdown was called:
\* nothing is sent and the goroutine ends.
ServerClosed ==
    /\ srv.g \in {"listen", "serving"}
    /\ srv.closed
    /\ srv' = [srv EXCEPT !.g = "exit"]
    /\ UNCHANGED besideServe

\* serverErrors <- err on a channel without buffer: the error is handed
\* over only while the main goroutine waits in its select.
SendErrorUnbuffered ==
    /\ srv.g = "send"
    /\ srv.pc = "select"
    /\ Len(srv.serverErrors) < serverErrorsCap
    /\ srv' = [srv EXCEPT !.serverErrors = Append(@, "listen error"),
                          !.g = "exit"]
    /\ UNCHANGED besideServe

\* serverErrors <- err
SendError ==
    /\ srv.g = "send"
    /\ Len(srv.serverErrors) < serverErrorsCap
    /\ srv' = [srv EXCEPT !.serverErrors = Append(@, "listen error"),
                          !.g = "exit"]
    /\ UNCHANGED besideServe

\* A client connects to the listening server.
Connect ==
    /\ srv.g = "serving"
    /\ ~srv.closed
    /\ srv.conns < MaxConns
    /\ srv' = [srv EXCEPT !.conns = @ + 1]
    /\ UNCHANGED besideServe

\* A connection ends.
Disconnect ==
    /\ srv.conns > 0
    /\ srv' = [srv EXCEPT !.conns = @ - 1]
    /\ UNCHANGED besideServe

\* case err := <-serverErrors: panic(err)
SelectServerError ==
    /\ srv.pc = "select"
    /\ srv.serverErrors # <<>>
    /\ srv' = [srv EXCEPT !.serverErrors = Tail(@),
                          !.panic = Head(srv.serverErrors),
                          !.pc = "panic"]
    /\ UNCHANGED besideServe

\* case sig := <-stop: the context with the deadline is made and Shutdown
\* is called; the server stops listening.
SelectStop ==
    /\ srv.pc = "select"
    /\ srv.stop # <<>>
    /\ srv' = [srv EXCEPT !.stop = Tail(@),
                          !.pc = "shutdown",
                          !.closed = TRUE,
                          !.shutdowns = @ + 1,
                          !.deadline = shutdownTimeout,
                          !.elapsed = 0]
    /\ UNCHANGED besideServe

\* A second of the deadline of Shutdown passes.
ShutdownWaits ==
    /\ srv.pc = "shutdown"
    /\ srv.elapsed < srv.deadline
    /\ srv' = [srv EXCEPT !.elapsed = @ + 1]
    /\ UNCHANGED besideServe

\* Shutdown returns nil: no connection is left.  runServer returns and
\* Serve with it.
ShutdownReturns ==
    /\ srv.pc = "shutdown"
    /\ srv.conns = 0
    /\ srv' = [srv EXCEPT !.pc = "returned"]
    /\ UNCHANGED besideServe

\* Shutdown returns the error of closing the listener: panic(err)
ShutdownFails ==
    /\ srv.pc = "shutdown"
    /\ srv.conns = 0
    /\ srv' = [srv EXCEPT !.panic = "close error", !.pc = "panic"]
    /\ UNCHANGED besideServe

\* Shutdown returns the error of its context: the deadline has passed and
\* a connection is left.  panic(err)
ShutdownTimesOut ==
    /\ srv.pc = "shutdown"
    /\ srv.elapsed = srv.deadline
    /\ srv.conns > 0
    /\ srv' = [srv EXCEPT !.panic = "context deadline exceeded",
                          !.pc = "panic"]
    /\ UNCHANGED besideServe

\* The deferred function of Serve recovers the panic, and Serve returns.
Recover ==
    /\ srv.pc = "panic"
    /\ srv' = [srv EXCEPT !.recovered = TRUE, !.pc = "returned"]
    /\ UNCHANGED besideServe

\* The steps of the main goroutine.
MainSteps ==
    \/ Notify
    \/ Go
    \/ SelectServerError
    \/ SelectStop
    \/ ShutdownWaits
    \/ ShutdownReturns
    \/ ShutdownFails
    \/ ShutdownTimesOut
    \/ Recover

\* The steps of the goroutine of ListenAndServe that nothing holds up.
GoroutineSteps ==
    \/ ServerClosed
    \/ SendError

NextServe ==
    \/ MainSteps
    \/ GoroutineSteps
    \/ Signal
    \/ ListenAndServeFails
    \/ Listen
    \/ Connect
    \/ Disconnect

\* Both goroutines are scheduled again and again, and time passes.
SpecServe ==
    InitServe /\ [][NextServe]_vars
        /\ WF_vars(MainSteps) /\ WF_vars(GoroutineSteps)

(***************************************************************************)
(* DownloadURLToS3: the arguments are validated, the bucket is looked up,  *)
(* the source is downloaded and its body is put into the bucket.           *)
(***************************************************************************)
\* The letters a scheme starts with.
SchemeLetters ==
    {LowerLetters[i] : i \in 1..26} \cup {UpperLetters[i] : i \in 1..26}

\* The other characters of a scheme.
SchemeMarks == {Digits[i] : i \in 1..10} \cup {"+", "-", "."}

RECURSIVE getSchemeFrom(_, _)
\* net/url getScheme from the i-th character on: the scheme ends at the
\* first ':', a ':' at the start is an error, and any character that no
\* scheme holds means that there is no scheme.
getSchemeFrom(rawURL, i) ==
    IF i > Len(rawURL) THEN [scheme |-> <<>>, err |-> Nil]
    ELSE IF rawURL[i] \in SchemeLetters THEN getSchemeFrom(rawURL, i + 1)
    ELSE IF rawURL[i] \in SchemeMarks
    THEN IF i = 1 THEN [scheme |-> <<>>, err |-> Nil]
         ELSE getSchemeFrom(rawURL, i + 1)
    ELSE IF rawURL[i] = ":"
    THEN IF i = 1
         THEN [scheme |-> <<>>, err |-> "missing protocol scheme"]
         ELSE [scheme |-> SubSeq(rawURL, 1, i - 1), err |-> Nil]
    ELSE [scheme |-> <<>>, err |-> Nil]

\* url.Parse, as far as the scheme goes: the scheme is lower-cased.
ParseScheme(rawURL) ==
    LET r == getSchemeFrom(rawURL, 1)
    IN  [scheme |-> ToLower(r.scheme), err |-> r.err]

\* The source URLs of the calls.
SourceURLs ==
    { <<>>,
      <<"h", "t", "t", "p", ":", "/", "/", "h">>,
      <<"h", "t", "t", "p", "s", ":", "/", "/", "h">>,
      <<"H", "T", "T", "P", ":", "/", "/", "h">>,
      <<"f", "t", "p", ":", "/", "/", "h">>,
      <<"h", "/", "a">>,
      <<"1", "h", "t", "t", "p", ":", "/", "/", "h">>,
      <<":", "/", "/", "h">> }

\* The bucket names and the object names of the calls.
BucketNames == {<<>>, <<"b">>}
ObjectNames == {<<>>, <<"o">>, <<"d", "/", "o">>}

\* minio.UploadInfo{} and the UploadInfo of a stored object.
EmptyUploadInfo == [Bucket |-> <<>>, Key |-> <<>>]
UploadInfo(bucketName, objectName) ==
    [Bucket |-> bucketName, Key |-> objectName]

\* The status codes of the responses.
StatusOK == 200
StatusCodes == {StatusOK, 404}

\* A call with any arguments; nothing is stored and nothing is requested.
InitDownload ==
    /\ NoParsing
    /\ lx = NoLexer
    /\ tx = NoTaxonomy
    /\ rl = NoLimiter
    /\ rq = NoRequest
    /\ hd = NoHandle
    /\ srv = NoServe
    /\ \E sourceURL \in SourceURLs, bucketName \in BucketNames,
          objectName \in ObjectNames :
          dl = [pc |-> "validate", sourceURL |-> sourceURL,
                bucketName |-> bucketName, objectName |-> objectName,
                scheme |-> <<>>, exists |-> "unknown", status |-> 0,
                requests |-> 0, puts |-> 0, objects |-> {},
                info |-> EmptyUploadInfo, err |-> Nil]

\* return minio.UploadInfo{}, fmt.Errorf(...)
ReturnError(text) ==
    dl' = [dl EXCEPT !.pc = "done", !.info = EmptyUploadInfo, !.err = text]

\* The three arguments are not empty.
ValidateArguments ==
    /\ dl.pc = "validate"
    /\ IF dl.sourceURL = <<>> THEN ReturnError("source URL cannot be empty")
       ELSE IF dl.bucketName = <<>>
       THEN ReturnError("bucket name cannot be empty")
       ELSE IF dl.objectName = <<>>
       THEN ReturnError("object name cannot be empty")
       ELSE dl' = [dl EXCEPT !.pc = "parse"]
    /\ UNCHANGED besideDownload

\* url.Parse, and the scheme is http or https.
ParseURL ==
    /\ dl.pc = "parse"
    /\ LET parsedURL == ParseScheme(dl.sourceURL)
       IN  IF parsedURL.err # Nil THEN ReturnError("invalid source URL")
           ELSE IF /\ parsedURL.scheme # <<"h", "t", "t", "p">>
                   /\ parsedURL.scheme # <<"h", "t", "t", "p", "s">>
           THEN ReturnError("unsupported URL scheme")
           ELSE dl' = [dl EXCEPT !.pc = "client",
                                 !.scheme = parsedURL.scheme]
    /\ UNCHANGED besideDownload

\* createMinIOClient gives a client or an error.
CreateMinIOClient ==
    /\ dl.pc = "client"
    /\ \E ok \in BOOLEAN :
          IF ok THEN dl' = [dl EXCEPT !.pc = "bucket"]
          ELSE ReturnError("failed to create MinIO client")
    /\ UNCHANGED besideDownload

\* The mutant of BucketExists: a missing bucket does not end the call.
BucketExistsUnchecked ==
    /\ dl.pc = "bucket"
    /\ \E outcome \in {"error", "no", "yes"} :
          IF outcome = "error"
          THEN ReturnError("failed to check if bucket exists")
          ELSE dl' = [dl EXCEPT !.pc = "httpClient", !.exists = outcome]
    /\ UNCHANGED besideDownload

\* minioClient.BucketExists fails, or tells whether the bucket exists.
BucketExists ==
    /\ dl.pc = "bucket"
    /\ \E outcome \in {"error", "no", "yes"} :
          IF outcome = "error"
          THEN ReturnError("failed to check if bucket exists")
          ELSE IF outcome = "no"
          THEN dl' = [dl EXCEPT !.pc = "done", !.exists = "no",
                                !.info = EmptyUploadInfo,
                                !.err = "bucket does not exist"]
          ELSE dl' = [dl EXCEPT !.pc = "httpClient", !.exists = "yes"]
    /\ UNCHANGED besideDownload

\* internal.CreateConfiguredHTTPClient gives a client or an error.
CreateHTTPClient ==
    /\ dl.pc = "httpClient"
    /\ \E ok \in BOOLEAN :
          IF ok THEN dl' = [dl EXCEPT !.pc = "request"]
          ELSE ReturnError("failed to create configured HTTP client")
    /\ UNCHANGED besideDownload

\* http.NewRequestWithContext parses the source URL again.
NewRequest ==
    /\ dl.pc = "request"
    /\ IF ParseScheme(dl.sourceURL).err # Nil
       THEN ReturnError("failed to create HTTP request")
       ELSE dl' = [dl EXCEPT !.pc = "do"]
    /\ UNCHANGED besideDownload

\* httpClient.Do sends the request; it fails or a response comes.
Do ==
    /\ dl.pc = "do"
    /\ \E outcome \in {0} \cup StatusCodes :
          IF outcome = 0
          THEN dl' = [dl EXCEPT !.pc = "done",
                                !.requests = dl.requests + 1,
                                !.info = EmptyUploadInfo,
                                !.err = "failed to download file from URL"]
          ELSE dl' = [dl EXCEPT !.pc = "status",
                                !.requests = dl.requests + 1,
                                !.status = outcome]
    /\ UNCHANGED besideDownload

\* The status of the response is 200.
CheckStatus ==
    /\ dl.pc = "status"
    /\ IF dl.status # StatusOK
       THEN ReturnError("HTTP request failed with status")
       ELSE dl' = [dl EXCEPT !.pc = "put"]
    /\ UNCHANGED besideDownload

\* minioClient.PutObject stores the body of the response, or fails and
\* stores nothing.
PutObject ==
    /\ dl.pc = "put"
    /\ \E ok \in BOOLEAN :
          IF ok
          THEN dl' = [dl EXCEPT
                        !.pc = "done",
                        !.puts = dl.puts + 1,
                        !.objects = dl.objects
                            \cup {<<dl.bucketName, dl.objectName>>},
                        !.info = UploadInfo(dl.bucketName, dl.objectName),
                        !.err = Nil]
          ELSE dl' = [dl EXCEPT !.pc = "done",
                                !.puts = dl.puts + 1,
                                !.info = EmptyUploadInfo,
                                !.err = "failed to upload file to S3"]
    /\ UNCHANGED besideDownload

NextDownload ==
    \/ ValidateArguments
    \/ ParseURL
    \/ CreateMinIOClient
    \/ BucketExists
    \/ CreateHTTPClient
    \/ NewRequest
    \/ Do
    \/ CheckStatus
    \/ PutObject

SpecDownload == InitDownload /\ [][NextDownload]_vars

(***************************************************************************)
(* The two variants of the category parser side by side: one call of the   *)
(* strict or of the lenient ParseReconstructCategoryExpression(input).     *)
(***************************************************************************)
CallLenient ==
    /\ call = NoCall
    /\ call' = [fn     |-> "lenient",
                prefix |-> CatPrefix,
                suffix |-> <<>>,
                out    |-> [str |->
                    ParseReconstructCategoryExpressionLenient(input)]]
    /\ UNCHANGED <<input, besideCall>>

NextVariants ==
    \/ CallCategory
    \/ CallLenient

SpecVariants == InitApply /\ [][NextVariants]_vars

(***************************************************************************)
(* Notions the properties are stated with.                                 *)
(***************************************************************************)
Done == p.pc = "done"

Succeeded == Done /\ p.out.err = Nil

Failed == Done /\ p.out.err = ErrEmptyExpression

OnlyWhitespace(s) == \A i \in 1..Len(s) : IsSpace(s[i])

Operators == {tokenAnd, tokenOr, tokenNot}

\* The tokens of the input, once lexed, without the terminal EOF.
InputTokens == SubSeq(p.tokens, 1, Len(p.tokens) - 1)

RECURSIVE Count(_, _)
\* The number of occurrences of the character c in s.
Count(s, c) ==
    IF s = <<>> THEN 0
    ELSE (IF Head(s) = c THEN 1 ELSE 0) + Count(Tail(s), c)

RECURSIVE NestingFrom(_, _, _)
\* Every prefix of s[i..] keeps the nesting depth, d at i, from going
\* below 0, and the depth at the end is 0.
NestingFrom(s, i, d) ==
    IF i > Len(s) THEN d = 0
    ELSE LET d1 == IF s[i] = "(" THEN d + 1
                   ELSE IF s[i] = ")" THEN d - 1 ELSE d
         IN  d1 >= 0 /\ NestingFrom(s, i + 1, d1)

\* The parentheses of the string s are balanced.
Balanced(s) == NestingFrom(s, 1, 0)

RECURSIVE ParsedEnd(_, _, _)
\* The index of the token that ends the top level of ts, read from i at
\* nesting depth d: the first ")" met at depth 0, or EOF.
ParsedEnd(ts, i, d) ==
    IF ts[i].Type = tokenEOF THEN i
    ELSE IF ts[i].Type = tokenRParen
         THEN (IF d = 0 THEN i ELSE ParsedEnd(ts, i + 1, d - 1))
    ELSE IF ts[i].Type = tokenLParen THEN ParsedEnd(ts, i + 1, d + 1)
    ELSE ParsedEnd(ts, i + 1, d)

\* The top level, or a group opened before the top level ends, holds no
\* part: it begins with ")" or with the end of the input.
HasEmptyLevel(ts) ==
    LET closes(i) == ts[i].Type \in {tokenRParen, tokenEOF}
        end == ParsedEnd(ts, 1, 0)
    IN  \/ closes(1)
        \/ \E i \in 1..(end - 1) : ts[i].Type = tokenLParen /\ closes(i + 1)

(***************************************************************************)
(* C1.  For every input that is empty or holds only whitespace, the strict *)
(* category variant and the general variant both fail with "empty          *)
(* expression"; neither returns "()" nor any other string.                 *)
(***************************************************************************)
C1_WhitespaceOnlyFails ==
    (Done /\ OnlyWhitespace(input)) =>
        /\ p.out = [str |-> <<>>, err |-> ErrEmptyExpression]
        /\ \A d \in Decorations :
              ParseReconstructGeneralExpression(input, d[1], d[2])
                  = [str |-> <<>>, err |-> ErrEmptyExpression]

C1_Witness ==
    /\ Failed
    /\ OnlyWhitespace(input)
    /\ Len(input) >= 3
    /\ \E i \in 1..Len(input) : input[i] = "\t"

C2_WitnessAccepted ==
    /\ Succeeded
    /\ ~Balanced(input)
    /\ \A i \in 1..Len(InputTokens) : InputTokens[i].Type # tokenIdent

(***************************************************************************)
(* C3.  Implicit AND: a step of the loop appends a literal "AND" part in   *)
(* front of the current token's own part exactly when the part appended    *)
(* last at this level is a term (it came from an identifier or from a      *)
(* group that has just been closed) and the current token is an identifier *)
(* or "("; in every other step of the loop, and when a group is taken from *)
(* a recursive call, nothing but the token's own part is appended.         *)
(***************************************************************************)
C3_LoopStepRule ==
    LET d    == Len(p.stack)
        old  == p.stack[d].parts
        new  == p'.stack[d].parts
        tok  == Cur(p)
        \* the parts the token itself appends in this step
        own  == IF tok.Type = tokenLParen THEN 0 ELSE 1
        lastIsTerm == /\ old # <<>>
                      /\ p.tokens[p.pos].Type \in {tokenIdent, tokenRParen}
        currIsTerm == tok.Type \in {tokenIdent, tokenLParen}
    IN  /\ Len(p'.stack) >= d
        /\ SubSeq(new, 1, Len(old)) = old
        /\ IF lastIsTerm /\ currIsTerm
           THEN /\ Len(new) = Len(old) + 1 + own
                /\ new[Len(old) + 1] = KwAND
           ELSE Len(new) = Len(old) + own

C3_GroupStepRule ==
    LET d   == Len(p.stack)
        old == p.stack[d].parts
        new == p'.stack[d].parts
    IN  /\ Len(p'.stack) = d
        /\ new = Append(old, <<"(">> \o p.ret.expr \o <<")">>)

C3_ImplicitAnd ==
    [][ /\ (p.pc = "loop" /\ InLoop(p)) => C3_LoopStepRule
        /\ (p.pc = "ret" /\ p.stack # <<>> /\ p.ret.err = Nil)
               => C3_GroupStepRule ]_vars

\* An implicit AND has been appended between a group and an identifier.
C3_Witness ==
    /\ p.pc = "loop"
    /\ Len(p.stack) = 1
    /\ \A i \in 1..Len(p.tokens) : p.tokens[i].Type # tokenAnd
    /\ LET ps == Top(p).parts
       IN  /\ Len(ps) = 3
           /\ HasSuffix(ps[1], <<")">>)
           /\ ps[2] = KwAND
           /\ HasPrefix(ps[3], CatPrefix)

(***************************************************************************)
(* C4.  An input of N >= 1 whitespace-separated bare identifiers, without  *)
(* operators or parentheses, gives one pair of parentheses around the N    *)
(* decorated identifiers, in input order, with "AND" between neighbours:   *)
(* (cat:v1+AND+cat:v2+...+AND+cat:vN).                                     *)
(***************************************************************************)
RECURSIVE AndChain(_)
\* cat:v1+AND+cat:v2+...+AND+cat:vN for the words v1..vN.
AndChain(words) ==
    IF Len(words) = 1 THEN <<"c", "a", "t", ":">> \o words[1]
    ELSE <<"c", "a", "t", ":">> \o words[1] \o <<"+", "A", "N", "D", "+">>
             \o AndChain(Tail(words))

\* The input is made of identifiers and whitespace alone.
BareIdentifiers(s) ==
    /\ \A i \in 1..Len(s) : s[i] \notin {"(", ")", "+", "-", "|"}
    /\ Fields(s) # <<>>
    /\ \A i \in 1..Len(Fields(s)) :
          ToUpper(Fields(s)[i]) \notin {KwAND, KwOR, KwNOT}

C4_IdentifiersAndChain ==
    (Done /\ BareIdentifiers(input)) =>
        /\ p.out.err = Nil
        /\ p.out.str = <<"(">> \o AndChain(Fields(input)) \o <<")">>
        /\ Count(p.out.str, "(") = 1

C4_Witness ==
    /\ Succeeded
    /\ BareIdentifiers(input)
    /\ Len(Fields(input)) = 3

(***************************************************************************)
(* C5.  Every string returned by a successful parse starts with "(", ends  *)
(* with ")" and has balanced parentheses, whatever the parentheses of the  *)
(* input.                                                                  *)
(***************************************************************************)
C5_OutputBalanced ==
    Succeeded =>
        /\ Len(p.out.str) >= 2
        /\ Head(p.out.str) = "("
        /\ Last(p.out.str) = ")"
        /\ Balanced(p.out.str)

\* A successful parse of an input with an unclosed "(" and a stray ")".
C5_Witness ==
    /\ Succeeded
    /\ ~Balanced(input)
    /\ Count(input, "(") > Count(input, ")")
    /\ Count(input, ")") > 0

(***************************************************************************)
(* C6, as stated: for an input with k >= 1 unclosed "(" in which every     *)
(* group holds at least one identifier or operator, parsing does not fail  *)
(* and gives the output of the same input with k ")" appended.             *)
(***************************************************************************)
RECURSIVE UnclosedFrom(_, _, _)
\* The number of "(" of s[i..] left without a matching ")", d being open.
UnclosedFrom(s, i, d) ==
    IF i > Len(s) THEN d
    ELSE IF s[i] = "(" THEN UnclosedFrom(s, i + 1, d + 1)
    ELSE IF s[i] = ")" /\ d > 0 THEN UnclosedFrom(s, i + 1, d - 1)
    ELSE UnclosedFrom(s, i + 1, d)

Unclosed(s) == UnclosedFrom(s, 1, 0)

\* No "(" of the tokens ts is directly followed by ")" or by the end.
NoEmptyGroup(ts) ==
    \A i \in 1..(Len(ts) - 1) :
        ts[i].Type = tokenLParen
            => ts[i + 1].Type \notin {tokenRParen, tokenEOF}

\* s with k ")" appended.
Closed(s, k) == s \o [i \in 1..k |-> ")"]

Front(s) == SubSeq(s, 1, Len(s) - 1)

C7_TrailingCloseIgnored ==
    /\ (Succeeded /\ Balanced(input)) =>
           ParseReconstructCategoryExpression(input \o <<")">>) = p.out
    /\ (/\ Done
        /\ input # <<>>
        /\ Last(input) = ")"
        /\ Balanced(Front(input))
        /\ ParseReconstructCategoryExpression(Front(input)).err = Nil) =>
           p.out = ParseReconstructCategoryExpression(Front(input))

\* The parsed input is a balanced one with a group, followed by ")".
C7_Witness ==
    /\ Succeeded
    /\ input # <<>>
    /\ Last(input) = ")"
    /\ Balanced(Front(input))
    /\ Count(input, "(") >= 1
    /\ p.pos = Len(p.tokens) - 1

(***************************************************************************)
(* C8.  A non-empty input made of the keywords AND, OR, NOT alone, in any  *)
(* letter case, parses to those keywords in upper case, in input order,    *)
(* joined by "+" inside one pair of parentheses; no AND is added.          *)
(***************************************************************************)
RECURSIVE PlusChain(_)
\* w1+w2+...+wN
PlusChain(words) ==
    IF Len(words) = 1 THEN words[1]
    ELSE words[1] \o <<"+">> \o PlusChain(Tail(words))

KeywordsOnly(s) ==
    /\ Fields(s) # <<>>
    /\ \A i \in 1..Len(Fields(s)) :
          ToUpper(Fields(s)[i])
              \in {<<"A", "N", "D">>, <<"O", "R">>, <<"N", "O", "T">>}

C8_KeywordsVerbatim ==
    (Done /\ KeywordsOnly(input)) =>
        /\ p.out.err = Nil
        /\ p.out.str =
             <<"(">>
               \o PlusChain([i \in 1..Len(Fields(input)) |->
                                ToUpper(Fields(input)[i])])
               \o <<")">>

C8_Witness ==
    /\ Succeeded
    /\ KeywordsOnly(input)
    /\ Len(Fields(input)) = 3
    /\ \E i \in 1..3 : Fields(input)[i] # ToUpper(Fields(input)[i])
    /\ \E i \in 1..3 : ToUpper(Fields(input)[i]) = <<"N", "O", "T">>

(***************************************************************************)
(* Respellings of an input.  A word is a maximal run of characters that    *)
(* are neither whitespace nor one of ( ) + - | ; a keyword is a word that  *)
(* reads AND, OR or NOT in some letter case.                               *)
(***************************************************************************)
IsMeta(c) == c \in {"(", ")", "+", "-", "|"}

IsWordChar(c) == ~IsSpace(c) /\ ~IsMeta(c)

IsKeyword(w) ==
    ToUpper(w) \in {<<"A", "N", "D">>, <<"O", "R">>, <<"N", "O", "T">>}

RECURSIVE WordEnd(_, _)
\* The last index of the word of s that has s[i] in it.
WordEnd(s, i) ==
    IF i < Len(s) /\ IsWordChar(s[i + 1]) THEN WordEnd(s, i + 1) ELSE i

\* The keyword w, written the way `mode` asks.
Rewrite(w, mode) ==
    CASE mode = "shorthand" ->
             (CASE ToUpper(w) = <<"A", "N", "D">> -> <<"+">>
                [] ToUpper(w) = <<"O", "R">>      -> <<"|">>
                [] OTHER                          -> <<"-">>)
      [] mode = "upper" -> ToUpper(w)
      [] mode = "lower" -> [i \in 1..Len(w) |-> ToLowerChar(w[i])]
      [] mode = "flip"  ->
             [i \in 1..Len(w) |->
                 IF ToUpperChar(w[i]) = w[i]
                 THEN ToLowerChar(w[i]) ELSE ToUpperChar(w[i])]

RECURSIVE RespellFrom(_, _, _, _, _)
\* s[i..] with its keywords rewritten: all of them when which = 0, the
\* which-th keyword of s alone otherwise; n keywords precede s[i].
RespellFrom(s, i, n, mode, which) ==
    IF i > Len(s) THEN <<>>
    ELSE IF ~IsWordChar(s[i])
         THEN <<s[i]>> \o RespellFrom(s, i + 1, n, mode, which)
    ELSE LET j == WordEnd(s, i)
             w == SubSeq(s, i, j)
         IN  IF IsKeyword(w)
             THEN (IF which = 0 \/ which = n + 1
                   THEN Rewrite(w, mode) ELSE w)
                      \o RespellFrom(s, j + 1, n + 1, mode, which)
             ELSE w \o RespellFrom(s, j + 1, n, mode, which)

Respell(s, mode, which) == RespellFrom(s, 1, 0, mode, which)

RECURSIVE KeywordsFrom(_, _)
\* The number of keywords of s[i..], i being the start of a word or not
\* in a word.
KeywordsFrom(s, i) ==
    IF i > Len(s) THEN 0
    ELSE IF ~IsWordChar(s[i]) THEN KeywordsFrom(s, i + 1)
    ELSE LET j == WordEnd(s, i)
         IN  (IF IsKeyword(SubSeq(s, i, j)) THEN 1 ELSE 0)
                 + KeywordsFrom(s, j + 1)

Keywords(s) == KeywordsFrom(s, 1)

\* s without the whitespace that touches one of ( ) + - | .
Tight(s) ==
    LET drop(i) == /\ IsSpace(s[i])
                   /\ \/ i > 1 /\ IsMeta(s[i - 1])
                      \/ i < Len(s) /\ IsMeta(s[i + 1])
        F[i \in 0..Len(s)] ==
            IF i = 0 THEN <<>>
            ELSE IF drop(i) THEN F[i - 1] ELSE Append(F[i - 1], s[i])
    IN  F[Len(s)]

\* s with "+", "|", "-" spelled as the keywords, set off by spaces.
Spelled(s) ==
    LET word(c) == CASE c = "+" -> <<" ", "A", "N", "D", " ">>
                     [] c = "|" -> <<" ", "o", "r", " ">>
                     [] c = "-" -> <<" ", "N", "o", "t", " ">>
                     [] OTHER   -> <<c>>
        F[i \in 0..Len(s)] ==
            IF i = 0 THEN <<>> ELSE F[i - 1] \o word(s[i])
    IN  F[Len(s)]

(***************************************************************************)
(* C9.  The shorthand operators are the keywords, glued or not: writing    *)
(* any keyword, or all of them, as "+", "|" or "-", with or without the    *)
(* whitespace around it, and writing a shorthand as its keyword, leave     *)
(* the result unchanged; so does removing the whitespace around "(" and    *)
(* ")".                                                                    *)
(***************************************************************************)
C9_ShorthandSameAsKeyword ==
    Done =>
        /\ \A which \in 0..Keywords(input) :
              ParseReconstructCategoryExpression(
                  Tight(Respell(input, "shorthand", which))) = p.out
        /\ ParseReconstructCategoryExpression(
               Respell(input, "shorthand", 0)) = p.out
        /\ ParseReconstructCategoryExpression(Tight(input)) = p.out
        /\ ParseReconstructCategoryExpression(Spelled(input)) = p.out

\* Two identifiers around a keyword: "a and B" against "a+B".
C9_Witness ==
    /\ Succeeded
    /\ Keywords(input) >= 1
    /\ Len(InputTokens) = 3
    /\ InputTokens[1].Type = tokenIdent
    /\ InputTokens[2].Type \in Operators
    /\ InputTokens[3].Type = tokenIdent
    /\ Len(Tight(Respell(input, "shorthand", 0))) = 3

\* A glued shorthand and glued parentheses in the parsed input.
C9_WitnessGlued ==
    /\ Succeeded
    /\ \A i \in 1..Len(input) : ~IsSpace(input[i])
    /\ Count(input, "+") = 1
    /\ Count(input, "(") = 1
    /\ \E i \in 1..Len(InputTokens) : InputTokens[i].Type = tokenIdent

(***************************************************************************)
(* C10.  Keywords are matched in any letter case and identifiers keep      *)
(* theirs: changing the case of the letters of any keyword, or of all,     *)
(* leaves the result unchanged, and the identifiers of the output are,     *)
(* in order and character for character, the identifiers of the input      *)
(* that the parser has read.                                               *)
(***************************************************************************)
IsTerm(w) == Len(w) >= 4 /\ SubSeq(w, 1, 4) = <<"c", "a", "t", ":">>

RECURSIVE WordsFrom(_, _, _)
\* The words of s[i..] of one kind: "identifier" (the words that are no
\* keywords), "term" (the words that start with cat:, without that
\* prefix) or "operator" (the words that do not start with cat:).
WordsFrom(s, i, kind) ==
    IF i > Len(s) THEN <<>>
    ELSE IF ~IsWordChar(s[i]) THEN WordsFrom(s, i + 1, kind)
    ELSE LET j == WordEnd(s, i)
             w == SubSeq(s, i, j)
         IN  (CASE kind = "identifier" /\ ~IsKeyword(w) -> <<w>>
                [] kind = "term" /\ IsTerm(w) -> <<SubSeq(w, 5, Len(w))>>
                [] kind = "operator" /\ ~IsTerm(w) -> <<w>>
                [] OTHER -> <<>>)
                 \o WordsFrom(s, j + 1, kind)

\* The identifiers written in the input.
InputIdentifiers == WordsFrom(input, 1, "identifier")

\* The identifiers of the terms of the output.
OutputIdentifiers == WordsFrom(p.out.str, 1, "term")

\* The operators of the output.
OutputOperators == WordsFrom(p.out.str, 1, "operator")

\* The number of identifiers among the tokens that the parser has read.
IdentifiersRead ==
    Cardinality({i \in 1..p.pos : p.tokens[i].Type = tokenIdent})

IsBlank(c) == c \in {" ", "\t", "\n"}

RECURSIVE ChunksFrom(_, _, _)
\* The maximal runs of characters of s[i..] that are no spaces, tabs or
\* newlines, cur being the run that is being read.
ChunksFrom(s, i, cur) ==
    IF i > Len(s) THEN (IF cur = <<>> THEN <<>> ELSE <<cur>>)
    ELSE IF IsBlank(s[i])
         THEN (IF cur = <<>> THEN <<>> ELSE <<cur>>)
                  \o ChunksFrom(s, i + 1, <<>>)
         ELSE ChunksFrom(s, i + 1, Append(cur, s[i]))

\* The whitespace written in front, between the fields and at the end.
Spacings ==
    { [lead |-> <<>>,           run |-> <<" ">>,            trail |-> <<>>],
      [lead |-> <<"\n", " ">>,  run |-> <<"\t", "\n">>,     trail |-> <<>>],
      [lead |-> <<>>,           run |-> <<"\n", " ", " ">>, trail |-> <<"\t">>] }

\* s with its whitespace written as sp asks.
Respaced(s, sp) == sp.lead \o Join(ChunksFrom(s, 1, <<>>), sp.run) \o sp.trail

C11_WhitespaceIndependent ==
    call.fn = "category" =>
        \A sp \in Spacings :
            ParseReconstructCategoryExpression(Respaced(input, sp)) = call.out

\* Two fields after leading whitespace, with a tab between them.
C11_Witness ==
    /\ call.fn = "category"
    /\ call.out.err = Nil
    /\ Len(ChunksFrom(input, 1, <<>>)) = 2
    /\ IsBlank(input[1])
    /\ \E i \in 2..Len(input) : input[i] = "\t"

(***************************************************************************)
(* C12.  For every input with balanced parentheses that parses             *)
(* successfully, every group of the input is one pair of parentheses of    *)
(* the output and one part of the level around it: the output has          *)
(* 1 + (number of "(" of the input) opening parentheses, its parentheses   *)
(* are those of the input, in the same order, inside the outer pair, and   *)
(* every group of the output stands between separators or parentheses.     *)
(***************************************************************************)
\* The parentheses of s, in order.
Skeleton(s) == SelectSeq(s, LAMBDA c : c \in {"(", ")"})

\* Every group of s is a part of its own: nothing but "+" or a parenthesis
\* stands in front of a "(" or after a ")".
GroupsAreParts(s) ==
    \A i \in 1..Len(s) :
        /\ (s[i] = "(" /\ i > 1) => s[i - 1] \in {"+", "("}
        /\ (s[i] = ")" /\ i < Len(s)) => s[i + 1] \in {"+", ")"}

C12_GroupsKept ==
    (call.fn = "category" /\ call.out.err = Nil /\ Balanced(input)) =>
        /\ Count(call.out.str, "(") = 1 + Count(input, "(")
        /\ Skeleton(call.out.str)
             = <<"(">> \o Skeleton(input) \o <<")">>
        /\ GroupsAreParts(call.out.str)

\* A group within a group, and two groups side by side.
C12_Witness ==
    /\ call.fn = "category"
    /\ call.out.err = Nil
    /\ Balanced(input)
    /\ Skeleton(input) \in { <<"(", "(", ")", ")">>, <<"(", ")", "(", ")">> }
    /\ Len(call.out.str) >= 14

\* Two groups side by side.
C12_WitnessSiblings ==
    /\ call.fn = "category"
    /\ call.out.err = Nil
    /\ Skeleton(input) = <<"(", ")", "(", ")">>

(***************************************************************************)
(* C13, as stated: for every input, prefix and suffix, the general variant *)
(* returns what the category variant returns, with each term cat:<v>       *)
(* written <prefix><v><suffix>.                                            *)
(***************************************************************************)
RECURSIVE RedecoratedFrom(_, _, _, _)
\* s[i..] with every word cat:<v> written <prefix><v><suffix>.
RedecoratedFrom(s, i, prefix, suffix) ==
    IF i > Len(s) THEN <<>>
    ELSE IF ~IsWordChar(s[i])
         THEN <<s[i]>> \o RedecoratedFrom(s, i + 1, prefix, suffix)
    ELSE LET j == WordEnd(s, i)
             w == SubSeq(s, i, j)
         IN  (IF IsTerm(w)
              THEN prefix \o SubSeq(w, 5, Len(w)) \o suffix
              ELSE w)
                 \o RedecoratedFrom(s, j + 1, prefix, suffix)

\* What the category variant returned, decorated as the general variant
\* decorates.
Redecorated(out, prefix, suffix) ==
    [str |-> RedecoratedFrom(out.str, 1, prefix, suffix), err |-> out.err]

Terms(s) == WordsFrom(s, 1, "term")

\* The words of the string s that do not start with cat:.
OperatorWords(s) == WordsFrom(s, 1, "operator")

C14_ReparseSameStructure ==
    (call.fn = "category" /\ call.out.err = Nil) =>
        LET again == ParseReconstructCategoryExpression(call.out.str)
        IN  /\ again.err = Nil
            /\ Terms(again.str)
                 = [i \in 1..Len(Terms(call.out.str)) |->
                       CatPrefix \o Terms(call.out.str)[i]]
            /\ OperatorWords(again.str) = OperatorWords(call.out.str)
            /\ Skeleton(again.str)
                 = <<"(">> \o Skeleton(call.out.str) \o <<")">>

(***************************************************************************)
(* C14, amended.  Parsing a successful output again succeeds and gives     *)
(* the same terms in the same order, each decorated once more              *)
(* (cat:cat:<v>), and the same grouping inside one more pair of            *)
(* parentheses; the operators are those of the output in the same order,   *)
(* with one more AND for every "+" that joined two parts, since "+" is     *)
(* read as the shorthand of AND: the new string is the output with         *)
(* "+AND+" for every "+" and cat:cat: for every cat:, in parentheses.      *)
(***************************************************************************)
RECURSIVE RereadFrom(_, _)
\* s[i..] with "+AND+" for every "+" and cat:cat:<v> for every cat:<v>.
RereadFrom(s, i) ==
    IF i > Len(s) THEN <<>>
    ELSE IF s[i] = "+"
         THEN <<"+", "A", "N", "D", "+">> \o RereadFrom(s, i + 1)
    ELSE IF ~IsWordChar(s[i]) THEN <<s[i]>> \o RereadFrom(s, i + 1)
    ELSE LET j == WordEnd(s, i)
             w == SubSeq(s, i, j)
         IN  (IF IsTerm(w) THEN <<"c", "a", "t", ":">> \o w ELSE w)
                 \o RereadFrom(s, j + 1)

C14_ReparseReadsJoinAsAnd ==
    (call.fn = "category" /\ call.out.err = Nil) =>
        LET again == ParseReconstructCategoryExpression(call.out.str)
        IN  /\ again.err = Nil
            /\ again.str
                 = <<"(">> \o RereadFrom(call.out.str, 1) \o <<")">>
            /\ Terms(again.str)
                 = [i \in 1..Len(Terms(call.out.str)) |->
                       CatPrefix \o Terms(call.out.str)[i]]
            /\ Skeleton(again.str)
                 = <<"(">> \o Skeleton(call.out.str) \o <<")">>
            /\ Len(OperatorWords(again.str))
                 = Len(OperatorWords(call.out.str))
                     + Count(call.out.str, "+")

\* An output with a group, an implicit AND and a NOT is parsed again.
C14_Witness ==
    /\ call.fn = "category"
    /\ call.out.err = Nil
    /\ Count(call.out.str, "(") >= 2
    /\ Len(Terms(call.out.str)) >= 2
    /\ \E i \in 1..Len(OperatorWords(call.out.str)) :
          OperatorWords(call.out.str)[i] = <<"N", "O", "T">>

(***************************************************************************)
(* C15.  Under every interleaving of the steps of concurrent invocations,  *)
(* each invocation works on the tokens of its own input and returns the    *)
(* string and the error that it returns when it runs alone on that input.  *)
(***************************************************************************)
C15_ConcurrentSameAsAlone ==
    \A c \in Callers :
        /\ frame[c].pc \notin {"call", "done"} =>
              Invocation(c).tokens = lex(arg[c])
        /\ frame[c].pc = "done" =>
              frame[c].out = ParseReconstructCategoryExpression(arg[c])

\* One caller has returned while the other, on another input, is inside a
\* group.
C15_Witness ==
    /\ frame[1].pc = "done"
    /\ frame[1].out.err = Nil
    /\ frame[2].pc = "loop"
    /\ Len(frame[2].stack) = 2
    /\ heap[2].pos = 2
    /\ arg[1] # arg[2]
    /\ heap[1].pos = 2

(***************************************************************************)
(* C16.  The cursor moves forward and stays in range: from the call of     *)
(* parseExpression on, through all its recursive calls, pos is at most     *)
(* the index of the terminal EOF token, so that tokens[pos] can be read;   *)
(* no step decreases pos or increases it by more than one, and no step     *)
(* changes the tokens.  (pos counts from 0, as in the code.)               *)
(***************************************************************************)
C16_CursorInRange ==
    p.pc # "call" =>
        /\ p.tokens # <<>>
        /\ Last(p.tokens).Type = tokenEOF
        /\ p.pos >= 0
        /\ p.pos <= Len(p.tokens) - 1

C16_CursorStep ==
    /\ p'.pos \in {p.pos, p.pos + 1}
    /\ p.pc # "call" => p'.tokens = p.tokens

C16_CursorForward == [] C16_CursorInRange /\ [][C16_CursorStep]_vars

\* The parse has ended in front of EOF, after a group that ")" closed.
C16_Witness ==
    /\ Done
    /\ p.pos = Len(p.tokens) - 1
    /\ p.pos >= 4
    /\ \E i \in 1..p.pos : p.tokens[i].Type = tokenRParen

(***************************************************************************)
(* C17.  Every call of parseExpression from                                *)
(* ParseReconstructCategoryExpression ends, and the invocation with it;    *)
(* the parse reads every token at most once, pos being                     *)
(* the number of tokens read; and while parseExpression loops, the number  *)
(* of its active calls is 1 + the number of groups that are open at pos,   *)
(* so that the deepest recursion is 1 + the deepest nesting of "(" that    *)
(* the parser enters, and never more than 1 + the number of "(" tokens.    *)
(***************************************************************************)
\* The number of tokens of type t among the first n tokens.
TokensRead(t, n) == Cardinality({i \in 1..n : p.tokens[i].Type = t})

\* The groups that were entered and not left when pos tokens are read.
OpenGroups == TokensRead(tokenLParen, p.pos) - TokensRead(tokenRParen, p.pos)

C17_Depth ==
    /\ (p.pc = "loop" /\ Cur(p).Type # tokenEOF) =>
          Len(p.stack) = 1 + OpenGroups
    /\ Len(p.stack) <= 1 + OpenGroups
    /\ p.pc # "call" =>
          OpenGroups <= TokensRead(tokenLParen, Len(p.tokens))

\* Every step of the loop reads one token, the next one, and a step that
\* calls parseExpression makes its depth 1 + the number of open groups.
C17_ReadOnce ==
    /\ (p.pc = "loop" /\ InLoop(p)) => p'.pos = p.pos + 1
    /\ Len(p'.stack) > Len(p.stack) =>
          /\ Len(p'.stack) = Len(p.stack) + 1
          /\ Len(p'.stack) = 1 + TokensRead(tokenLParen, p'.pos)
                                - TokensRead(tokenRParen, p'.pos)

C17_Terminates ==
    /\ (p.pc = "loop") ~> Done
    /\ [] C17_Depth
    /\ [][C17_ReadOnce]_vars

\* A parse has ended that went three calls deep.
C17_Witness ==
    /\ Succeeded
    /\ Len(InputTokens) = 4
    /\ InputTokens[1].Type = tokenLParen
    /\ InputTokens[2].Type = tokenLParen
    /\ InputTokens[4].Type = tokenRParen
    /\ p.pos = 4

(***************************************************************************)
(* C18.  lex returns tokens for every input: they end with one EOF and     *)
(* hold no other EOF; no identifier reads AND, OR or NOT in any letter     *)
(* case, is empty, or holds one of ( ) + - | or whitespace; and the        *)
(* identifiers are, in order and character for character, the words of     *)
(* the input that are no keywords, ">" and "<=" among them.                *)
(***************************************************************************)
Lexed == lx.pc = "done"

\* The values of the identifiers among the tokens ts, in order.
IdentValues(ts) ==
    LET ids == SelectSeq(ts, LAMBDA t : t.Type = tokenIdent)
    IN  [i \in 1..Len(ids) |-> ids[i].Value]

C18_LexerTokens ==
    Lexed =>
        LET ts == lx.tokens
            n  == Len(ts)
        IN  /\ n >= 1
            /\ ts[n] = token(tokenEOF, <<>>)
            /\ \A i \in 1..(n - 1) : ts[i].Type # tokenEOF
            /\ \A i \in 1..n :
                  ts[i].Type = tokenIdent =>
                      /\ ts[i].Value # <<>>
                      /\ ~IsKeyword(ts[i].Value)
                      /\ \A j \in 1..Len(ts[i].Value) :
                            /\ ~IsMeta(ts[i].Value[j])
                            /\ ~IsSpace(ts[i].Value[j])
            /\ IdentValues(ts) = WordsFrom(input, 1, "identifier")

\* "<=" glued to the shorthand of NOT, after an identifier.
C18_Witness ==
    /\ Lexed
    /\ \A i \in 1..Len(input) : ~IsSpace(input[i])
    /\ Len(lx.tokens) = 4
    /\ lx.tokens[1].Type = tokenIdent
    /\ lx.tokens[2].Type = tokenNot
    /\ lx.tokens[3] = token(tokenIdent, <<"<", "=">>)

(***************************************************************************)
(* C19.  Whatever headings fetchCategoryTaxonomy has processed, every key  *)
(* of Categories is the Code of its category, every key of Groups is the   *)
(* Code of its group, and the group part of every category code (the text  *)
(* before its first ".", or the whole code when it has no "." or starts    *)
(* with one) is a key of Groups; the taxonomy that is returned is made of  *)
(* these two maps.                                                         *)
(***************************************************************************)
DotsOf(c) == {i \in 1..Len(c) : c[i] = "."}

\* The group part of the category code c.
GroupPart(c) ==
    IF DotsOf(c) = {} \/ 1 \in DotsOf(c)
    THEN c
    ELSE SubSeq(c, 1, (CHOOSE i \in DotsOf(c) : \A j \in DotsOf(c) : i <= j) - 1)

TaxonomyReturned == tx.pc = "done" /\ tx.out.err = Nil

C19_TaxonomyKeys ==
    tx.pc \in {"each", "done"} =>
        /\ \A c \in DOMAIN tx.Categories :
              /\ tx.Categories[c].Code = c
              /\ GroupPart(c) \in DOMAIN tx.Groups
        /\ \A g \in DOMAIN tx.Groups : tx.Groups[g].Code = g
        /\ TaxonomyReturned =>
              /\ tx.out.taxonomy.Categories = tx.Categories
              /\ tx.out.taxonomy.Groups = tx.Groups

\* A taxonomy is returned that has two categories of one group and a
\* category whose code starts with a dot.
C19_Witness ==
    /\ TaxonomyReturned
    /\ Cardinality(DOMAIN tx.out.taxonomy.Categories) = 3
    /\ Cardinality(DOMAIN tx.out.taxonomy.Groups) = 2
    /\ <<".", "x", ".", "y">> \in DOMAIN tx.out.taxonomy.Groups

(***************************************************************************)
(* C20.  Any two requests that the invocations of the category-fetch tool  *)
(* send to the arXiv API are started at least Period seconds apart.        *)
(***************************************************************************)
Requested == {i \in Invocations : rl.inv[i].started # NotStarted}

C20_RequestsApart ==
    \A i, j \in Requested :
        i # j => \/ rl.inv[i].started - rl.inv[j].started >= Period
                 \/ rl.inv[j].started - rl.inv[i].started >= Period

(***************************************************************************)
(* C21.  An invocation of categoryFetchLatest sends at most one request,   *)
(* and a failure of any step (unmarshal, parse, limiter, client, request,  *)
(* body, feed) ends the invocation in that very step with the error: the   *)
(* invocation takes no further step and sends no further request.          *)
(***************************************************************************)
FetchFailures ==
    { "failed to unmarshal arguments", "failed to parse category expression",
      "rate limiter error", "failed to create configured HTTP client",
      "failed to fetch from arXiv", "failed to read response body",
      "failed to parse feed" }

C21_AtMostOne ==
    \A i \in Invocations :
        /\ rl.inv[i].requests <= 1
        /\ rl.inv[i].err \in FetchFailures \cup {Nil}
        /\ rl.inv[i].err # Nil => rl.inv[i].pc = "done"

C21_FailureEnds ==
    \A i \in Invocations :
        /\ rl.inv[i].err # Nil => rl'.inv[i] = rl.inv[i]
        /\ rl.inv[i].pc = "done" => rl'.inv[i] = rl.inv[i]

C21_NoRetry == [] C21_AtMostOne /\ [][C21_FailureEnds]_vars

\* One invocation failed in its request, one in reading the body and one
\* in parsing the feed: each sent one request.
C21_Witness ==
    /\ {rl.inv[i].err : i \in Invocations} =
          { "failed to fetch from arXiv", "failed to read response body",
            "failed to parse feed" }
    /\ \A i \in Invocations : rl.inv[i].requests = 1

(***************************************************************************)
(* C25.  categoryFetchLatest parses, then waits for the limiter, then      *)
(* sends its request: an invocation whose category expression does not     *)
(* parse has never called Wait and sends no request, and its parsing step  *)
(* leaves the limiter as it was; every request is sent by an invocation    *)
(* whose one call of Wait had returned nil before.                         *)
(***************************************************************************)
\* The state of arxivRateLimiter.
Bucket == <<rl.last, rl.tokens, rl.lastEvent>>

C25_ParseThenWait ==
    \A i \in Invocations :
        /\ rl.inv[i].err = "failed to parse category expression" =>
              /\ rl.inv[i].waits = 0
              /\ ~rl.inv[i].granted
              /\ rl.inv[i].requests = 0
        /\ rl.inv[i].pc \in {"idle", "wait"} => rl.inv[i].waits = 0
        /\ rl.inv[i].requests > 0 =>
              /\ rl.inv[i].granted
              /\ rl.inv[i].waits = 1
              /\ rl.inv[i].started >= rl.inv[i].timeToAct

C25_WaitThenRequest ==
    \A i \in Invocations :
        /\ (rl.inv[i].pc = "idle" /\ rl'.inv[i].pc # "idle") => Bucket' = Bucket
        /\ rl'.inv[i].requests > rl.inv[i].requests =>
              /\ rl.inv[i].granted
              /\ rl.inv[i].pc = "granted"
        /\ (~rl.inv[i].granted /\ rl'.inv[i].granted) =>
              /\ rl.inv[i].pc \in {"wait", "sleep"}
              /\ rl.inv[i].requests = 0

C25_Ordered == [] C25_ParseThenWait /\ [][C25_WaitThenRequest]_vars

\* An invocation failed to parse, and another took the token the bucket
\* held from the start and sent its request.
C25_Witness ==
    \E i, j \in Invocations :
        /\ rl.inv[i].err = "failed to parse category expression"
        /\ rl.inv[j].requests = 1
        /\ rl.inv[j].timeToAct = 0
        /\ rl.tokens = 0

(***************************************************************************)
(* C22.  The url of the request of an accepted category has the query      *)
(* parameters search_query, start, max_results, sortBy and sortOrder, each *)
(* once and in this order, start and max_results being StartIndex and      *)
(* FetchSize of the arguments and the last two submittedDate and           *)
(* descending: the category adds, ends and overrides no parameter.         *)
(***************************************************************************)
\* The index of the first c of s at or after i, and Len(s) + 1 without one.
FirstAt(s, c, i) ==
    IF \E k \in i..Len(s) : s[k] = c
    THEN CHOOSE k \in i..Len(s) : s[k] = c /\ \A j \in i..(k - 1) : s[j] # c
    ELSE Len(s) + 1

\* The query of a url: what stands after its first "?", without the
\* fragment that its first "#" starts.
QueryOf(url) ==
    LET whole == SubSeq(url, 1, FirstAt(url, "#", 1) - 1)
    IN  SubSeq(whole, FirstAt(whole, "?", 1) + 1, Len(whole))

RECURSIVE SplitAt(_, _)
\* strings.Split(s, c) for a one-character c
SplitAt(s, c) ==
    LET k == FirstAt(s, c, 1)
    IN  IF k > Len(s) THEN <<s>>
        ELSE <<SubSeq(s, 1, k - 1)>> \o SplitAt(SubSeq(s, k + 1, Len(s)), c)

\* The parameters of a query, each a name and a value.
ParamsOf(query) ==
    LET pairs == SplitAt(query, "&")
    IN  [k \in 1..Len(pairs) |->
            LET eq == FirstAt(pairs[k], "=", 1)
            IN  [name  |-> SubSeq(pairs[k], 1, eq - 1),
                 value |-> SubSeq(pairs[k], eq + 1, Len(pairs[k]))]]

C22_RequestShape ==
    rq.pc = "get" =>
        LET params == ParamsOf(QueryOf(rq.url))
        IN  /\ Len(params) = 5
            /\ params[1] =
                  [name  |-> <<"s", "e", "a", "r", "c", "h", "_",
                               "q", "u", "e", "r", "y">>,
                   value |-> rq.searchQuery]
            /\ params[2] = [name  |-> <<"s", "t", "a", "r", "t">>,
                            value |-> Sprint(rq.args.StartIndex)]
            /\ params[3] = [name  |-> <<"m", "a", "x", "_", "r", "e", "s",
                                        "u", "l", "t", "s">>,
                            value |-> Sprint(rq.args.FetchSize)]
            /\ params[4] = [name  |-> <<"s", "o", "r", "t", "B", "y">>,
                            value |-> <<"s", "u", "b", "m", "i", "t", "t",
                                        "e", "d", "D", "a", "t", "e">>]
            /\ params[5] = [name  |-> <<"s", "o", "r", "t", "O", "r", "d",
                                        "e", "r">>,
                            value |-> <<"d", "e", "s", "c", "e", "n", "d",
                                        "i", "n", "g">>]

(***************************************************************************)
(* C23.  Handle runs its stages in order: the handler function is called   *)
(* only after the arguments passed the input schema; a result that is no   *)
(* error (IsError false, StructuredContent set) is returned only when the  *)
(* validation of the input, the handler function, the marshalling and the  *)
(* validation of the output all succeeded, in this order; every failure    *)
(* gives a result with IsError true; and the Go error of Handle is nil.    *)
(***************************************************************************)
Pipeline == <<"validate input", "handler", "marshal", "validate output">>

IsPrefixOf(s, t) == Len(s) <= Len(t) /\ s = SubSeq(t, 1, Len(s))

Called == \E k \in 1..Len(hd.trace) : hd.trace[k] = "handler"

C23_StagedPipeline ==
    /\ hd.goErr = Nil
    /\ IsPrefixOf(hd.trace, Pipeline)
    /\ Called => hd.Arguments.kind = "valid"
    /\ hd.err # Nil => hd.returned /\ hd.ret.IsError
    /\ hd.returned =>
          /\ hd.pc = "done"
          /\ hd.Arguments.kind # "valid" => hd.ret.IsError /\ ~Called
          /\ hd.trace # Pipeline => hd.ret.IsError
          /\ hd.ret.IsError => hd.ret.StructuredContent = NoValue
          /\ ~hd.ret.IsError =>
                /\ hd.trace = Pipeline
                /\ hd.err = Nil
                /\ hd.outputJSON # NoValue
                /\ hd.ret.StructuredContent = hd.result
                /\ hd.ret.StructuredContent # NoValue
    /\ ~hd.returned => hd.ret = NoResult

\* Handle returned what downloadPDFToMinIO gave for a stored PDF.
C23_Witness ==
    /\ hd.returned
    /\ ~hd.ret.IsError
    /\ hd.handlerFunc = "downloadPDFToMinIO"
    /\ hd.ret.StructuredContent.Success

(***************************************************************************)
(* C24.  When the download or the upload fails in downloadPDFToMinIO, the  *)
(* result that Handle returns for the tool carries the structured          *)
(* ArxivDownloadPDFOutput with Success false, the failure message and the  *)
(* object name the PDF was meant to get.                                   *)
(***************************************************************************)
UploadFailed ==
    /\ hd.returned
    /\ hd.handlerFunc = "downloadPDFToMinIO"
    /\ hd.err = "download or upload failed"

C24_FailureIsStructured ==
    UploadFailed =>
        hd.ret.StructuredContent =
            ArxivDownloadPDFOutput(FALSE, "Failed to download and upload PDF",
                                   ObjectNameOf(hd.Arguments.ArticleURL),
                                   <<>>, 0, "")

(***************************************************************************)
(* C26.  In HTTP mode, once a signal is delivered Serve returns in the     *)
(* end, and no panic leaves it: Shutdown is called at most once, with a    *)
(* deadline of 5 seconds; the error of Shutdown and the error of           *)
(* ListenAndServe become a panic that Serve has recovered when it          *)
(* returns; and the goroutine of ListenAndServe sends at most one error,   *)
(* finds room for it in serverErrors, and ends after sending, whichever    *)
(* branch of the select the main goroutine took.                           *)
(***************************************************************************)
ServeReturned == srv.pc = "returned"

C26_Orderly ==
    /\ srv.shutdowns <= 1
    /\ srv.shutdowns = 1 => srv.deadline = 5 /\ srv.elapsed <= 5
    /\ srv.pc = "shutdown" => srv.shutdowns = 1
    /\ Len(srv.serverErrors) <= 1
    /\ srv.g = "send" => srv.serverErrors = <<>>
    /\ srv.pc = "panic" => srv.panic # Nil /\ ~srv.recovered
    /\ ServeReturned => (srv.panic # Nil <=> srv.recovered)
    /\ ServeReturned => srv.shutdowns = 1 \/ srv.panic = "listen error"

C26_ShutsDown ==
    /\ [] C26_Orderly
    /\ (srv.signals > 0) ~> ServeReturned
    /\ (srv.g = "send") ~> (srv.g = "exit")

\* ListenAndServe failed and the main goroutine took the signal: the
\* error lies in serverErrors, the goroutine has ended, and Serve returned
\* after Shutdown.
C26_Witness ==
    /\ ServeReturned
    /\ srv.shutdowns = 1
    /\ srv.g = "exit"
    /\ srv.serverErrors # <<>>

\* Shutdown timed out on a connection, and Serve recovered the panic.
C26_WitnessTimeout ==
    /\ ServeReturned
    /\ srv.recovered
    /\ srv.panic = "context deadline exceeded"

(***************************************************************************)
(* C27                                                                     *)
(***************************************************************************)
\* The source URL starts with the scheme http or https, in any case of
\* the letters.
HttpSource ==
    \/ HasPrefix(ToLower(dl.sourceURL), <<"h", "t", "t", "p", ":">>)
    \/ HasPrefix(ToLower(dl.sourceURL), <<"h", "t", "t", "p", "s", ":">>)

\* C27, the chain: PutObject is called, at most once, only when the three
\* arguments are not empty, the source URL has the scheme http or https,
\* the bucket was found to exist and the source answered with status 200.
C27_PutLast ==
    /\ dl.puts <= 1
    /\ (dl.pc = "put" \/ dl.puts > 0) =>
          /\ dl.sourceURL # <<>>
          /\ dl.bucketName # <<>>
          /\ dl.objectName # <<>>
          /\ HttpSource
          /\ dl.exists = "yes"
          /\ dl.requests = 1
          /\ dl.status = 200

\* C27, the failures: a call that ends before PutObject returns the empty
\* UploadInfo with an error and has written no object, and a call whose
\* bucket check did not find the bucket has made no download request.
C27_EarlyFailure ==
    /\ (dl.pc = "done" /\ dl.puts = 0) =>
          /\ dl.info = [Bucket |-> <<>>, Key |-> <<>>]
          /\ dl.err # Nil
          /\ dl.objects = {}
    /\ dl.exists # "yes" => dl.requests = 0

\* C27: DownloadURLToS3 writes to storage only at the end of a fully
\* successful chain of checks; every earlier failure returns the empty
\* UploadInfo with an error, writes no object, and a failed bucket check
\* makes no download request.
C27_WritesLast ==
    /\ dl.pc # "off"
    /\ C27_PutLast
    /\ C27_EarlyFailure
    /\ dl.objects # {} => dl.puts = 1 /\ dl.err = Nil

\* A call has stored the object after the whole chain.
C27_Witness ==
    /\ dl.pc = "done"
    /\ dl.objects = {<<dl.bucketName, dl.objectName>>}
    /\ dl.err = Nil
    /\ dl.status = 200

\* A call has ended at the bucket check, the bucket being missing.
C27_WitnessNoBucket ==
    /\ dl.pc = "done"
    /\ dl.exists = "no"
    /\ dl.requests = 0
    /\ dl.err # Nil

(***************************************************************************)
(* C28                                                                     *)
(***************************************************************************)
\* The string s without its whitespace.
Unspaced(s) == SelectSeq(s, LAMBDA c : ~IsSpace(c))

RECURSIVE TopLevelEnd(_, _, _)
\* The index of the character that ends the top level of s, read from i at
\* nesting depth d: the first ")" met at depth 0, or the index past s.
TopLevelEnd(s, i, d) ==
    IF i > Len(s) THEN i
    ELSE IF s[i] = ")"
         THEN (IF d = 0 THEN i ELSE TopLevelEnd(s, i + 1, d - 1))
    ELSE IF s[i] = "(" THEN TopLevelEnd(s, i + 1, d + 1)
    ELSE TopLevelEnd(s, i + 1, d)

\* The top level of s, or a group that opens before the top level ends,
\* holds nothing: what follows its start is ")" or the end of s.
HoldsEmptyLevel(s) ==
    LET t == Unspaced(s)
        closes(i) == i > Len(t) \/ t[i] = ")"
    IN  \/ closes(1)
        \/ \E i \in 1..(TopLevelEnd(t, 1, 0) - 1) :
              t[i] = "(" /\ closes(i + 1)

\* The call of the strict category variant has returned.
CategoryReturned == call # NoCall /\ call.fn = "category"

\* C28: ParseReconstructCategoryExpression fails, and then with "empty
\* expression", exactly when the top level or a group that the parser
\* enters holds no part; a failed call returns the empty string, and a
\* call that succeeds returns a string.
C28_FailsOnEmptyLevel ==
    CategoryReturned =>
        /\ call.out.err \in {Nil, ErrEmptyExpression}
        /\ call.out.err = ErrEmptyExpression <=> HoldsEmptyLevel(input)
        /\ call.out.err # Nil => call.out.str = <<>>
        /\ call.out.err = Nil => Len(call.out.str) > 2

\* A call has failed on an empty group that follows parts of the top level
\* and of an outer group.
C28_Witness ==
    /\ CategoryReturned
    /\ call.out = [str |-> <<>>, err |-> ErrEmptyExpression]
    /\ LET t == Unspaced(input)
       IN  /\ Len(t) >= 5
           /\ t[1] \notin {"(", ")"}
           /\ \E i \in 4..(Len(t) - 1) :
                 /\ t[i] = "(" /\ t[i + 1] = ")"
                 /\ t[i - 1] \notin {"(", ")"}
                 /\ \E j \in 2..(i - 2) : t[j] = "("

\* A call has succeeded although an empty group follows the ")" that ends
\* the top level.
C28_WitnessNotEntered ==
    /\ CategoryReturned
    /\ call.out.err = Nil
    /\ LET t == Unspaced(input)
       IN  \E i \in 2..(Len(t) - 1) : t[i] = "(" /\ t[i + 1] = ")"

(***************************************************************************)
(* C29                                                                     *)
(***************************************************************************)
\* The input reads X ) Y with the ")" at index i: X is balanced and the
\* strict category variant accepts it.
ClosesAccepted(i) ==
    /\ input[i] = ")"
    /\ Balanced(SubSeq(input, 1, i - 1))
    /\ ParseReconstructCategoryExpression(SubSeq(input, 1, i - 1)).err = Nil

\* C29: when the input reads X ) Y, X being balanced and accepted, the
\* parse returns what the parse of X returns, and the cursor never goes
\* beyond the ")": it ends right after it, so that no token of Y is read.
C29_UnmatchedCloseEnds ==
    \A i \in 1..Len(input) :
        ClosesAccepted(i) =>
            LET X == SubSeq(input, 1, i - 1) IN
            /\ p.pc # "call" => p.pos <= Len(lex(X))
            /\ Done =>
                  /\ p.out = ParseReconstructCategoryExpression(X)
                  /\ p.pos = Len(lex(X))
                  /\ p.pos = Len(p.tokens) - Len(lex(SubSeq(input, i + 1,
                                                           Len(input))))

\* A parse has ended at the ")" that follows X; the text Y after it holds
\* tokens and is refused when parsed alone.
C29_Witness ==
    /\ Done
    /\ \E i \in 2..(Len(input) - 1) :
          /\ ClosesAccepted(i)
          /\ LET Y == SubSeq(input, i + 1, Len(input))
             IN  /\ Len(lex(Y)) > 2
                 /\ ParseReconstructCategoryExpression(Y).err
                        = ErrEmptyExpression

(***************************************************************************)
(* C30                                                                     *)
(***************************************************************************)
\* The number of places of s where the string sub begins.
Occurrences(s, sub) ==
    Cardinality({i \in 1..(Len(s) - Len(sub) + 1) :
                    SubSeq(s, i, i + Len(sub) - 1) = sub})

\* The number of levels of s that the parser enters and that hold nothing:
\* the top level, and the groups that open before the top level ends.
EmptyLevels(s) ==
    LET t == Unspaced(s)
        closes(i) == i > Len(t) \/ t[i] = ")"
    IN  (IF closes(1) THEN 1 ELSE 0)
            + Cardinality({i \in 1..(TopLevelEnd(t, 1, 0) - 1) :
                              t[i] = "(" /\ closes(i + 1)})

\* The call of the lenient variant has returned.
LenientReturned == call # NoCall /\ call.fn = "lenient"

\* C30: where the strict variant returns a string, that string is the
\* output of the lenient variant with "+" for every space; the lenient
\* variant returns "()" for an input without tokens and writes one "()"
\* for every empty level, and the strict variant fails exactly when the
\* lenient output holds such a "()".
C30_VariantsAgree ==
    LenientReturned =>
        LET strict == ParseReconstructCategoryExpression(input)
            lenient == call.out.str
        IN  /\ strict.err = Nil =>
                  strict.str = ReplaceAll(lenient, " ", <<"+">>)
            /\ OnlyWhitespace(input) => lenient = <<"(", ")">>
            /\ Occurrences(lenient, <<"(", ")">>) = EmptyLevels(input)
            /\ strict.err # Nil <=> Occurrences(lenient, <<"(", ")">>) > 0

\* The lenient variant has returned a string with spaces, which the strict
\* variant returns with "+", for an input with a group.
C30_Witness ==
    /\ LenientReturned
    /\ ParseReconstructCategoryExpression(input).err = Nil
    /\ Occurrences(call.out.str, <<" ">>) >= 2
    /\ Occurrences(call.out.str, <<"(">>) >= 2

\* The lenient variant has returned a string with the "()" of an empty
\* group among other parts, for an input that the strict variant refuses.
C30_WitnessEmptyGroup ==
    /\ LenientReturned
    /\ ParseReconstructCategoryExpression(input).err = ErrEmptyExpression
    /\ Occurrences(call.out.str, <<"(", ")">>) >= 1
    /\ Occurrences(call.out.str, CatPrefix) >= 1

====
